---------------------------- MODULE Spec2Model ----------------------------
(***************************************************************************)
(* Model of the SQL live-suggestion service: the per-environment metadata  *)
(* index (EnvironmentCache), the fuzzy matcher, the two-stage validator    *)
(* and the typeahead built on them, and the registry of environment caches *)
(* (MetadataCacheManager) with the request handlers that read from it.     *)
(*                                                                         *)
(* Strings are sequences of one-character strings, so that lower(),        *)
(* strip() and the similarity score are computed, not assumed.  A Python   *)
(* Optional value is a sequence of length 0 (None) or 1 (the value).  A    *)
(* Python dict is a function whose DOMAIN is its key set; the raw          *)
(* snapshot, whose iteration order drives the build, is a sequence of      *)
(* entries with pairwise distinct keys.                                    *)
(***************************************************************************)
EXTENDS Integers, Sequences, FiniteSets, TLC

VARIABLES
    raw,        \* the snapshot's "schemas" mapping, as the pickle file holds it
    settings,   \* process configuration: fuzzy_threshold, max_suggestions
    cache,      \* the EnvironmentCache of the environment
    request,    \* the request being handled (None when there is none)
    response,   \* the response returned for it
    loading,    \* the position of a call of EnvironmentCache.load on cache
    files,      \* per environment, the snapshot file in the pickle directory
    heap,       \* the EnvironmentCache objects the manager has constructed
    _caches,    \* MetadataCacheManager._caches: environment -> object in heap
    _available_environments,  \* MetadataCacheManager._available_environments
    loader,     \* the position of a call of load_all_environments
    reader      \* the position of the request handler

\* the state of the MetadataCacheManager singleton and of what runs on it
registry == <<files, heap, _caches, _available_environments, loader, reader>>

vars == <<raw, settings, cache, request, response, loading, registry>>

-----------------------------------------------------------------------------
(* Bounds of the model *)

\* the snapshot declares at most this many objects (schemas + tables + columns)
MaxEntries == 4
\* requests are served against snapshots of at most this many objects
MaxServed == 3
\* max_suggestions is configured in 1..MaxLimit
\* configured environments
MaxEnvs == 2

\* calls of load_all_environments
MaxCalls == 2

\* calls of EnvironmentCache.load on one cache
MaxLoads == 2

MaxLimit == 2

(* Program constants *)
\* Settings.fuzzy_threshold, the default minimum similarity score
fuzzy_threshold == 50

-----------------------------------------------------------------------------
(* Strings *)

None == <<>>
Some(x) == <<x>>

\* Python truthiness of an Optional[str]: None and "" are falsy
Truthy(opt) == opt # None /\ opt[1] # <<>>

LowerChar(ch) == IF ch = "A" THEN "a" ELSE IF ch = "B" THEN "b" ELSE ch

\* str.lower()
Lower(s) == [i \in 1..Len(s) |-> LowerChar(s[i])]

IsSpace(ch) == ch = " "

\* str.strip(): drop leading and trailing whitespace
Strip(s) ==
    LET keep == {i \in 1..Len(s) : ~IsSpace(s[i])}
    IN  IF keep = {} THEN <<>>
        ELSE LET lo == CHOOSE i \in keep : \A j \in keep : i <= j
                 hi == CHOOSE i \in keep : \A j \in keep : j <= i
             IN  SubSeq(s, lo, hi)

\* f"{a}.{b}"
Dot(a, b) == a \o <<".">> \o b

SeqSet(s) == {s[i] : i \in 1..Len(s)}

\* d.get(k, default)
Get(d, k, default) == IF k \in DOMAIN d THEN d[k] ELSE default

\* d[k] = v
Put(d, k, v) == [x \in (DOMAIN d) \cup {k} |-> IF x = k THEN v ELSE d[x]]

EmptyDict == [x \in {} |-> None]

-----------------------------------------------------------------------------
(* The similarity scorer, rapidfuzz fuzz.WRatio, on single-token strings.   *)
(* A score is the exact rational <<numerator, denominator>>.                *)

Max2(a, b) == IF a >= b THEN a ELSE b
Min2(a, b) == IF a <= b THEN a ELSE b

RECURSIVE LCS(_, _)
\* length of the longest common subsequence
LCS(a, b) ==
    IF a = <<>> \/ b = <<>> THEN 0
    ELSE IF a[1] = b[1] THEN 1 + LCS(Tail(a), Tail(b))
    ELSE Max2(LCS(Tail(a), b), LCS(a, Tail(b)))

ScoreLeq(x, y) == x[1] * y[2] <= y[1] * x[2]
ScoreMax(x, y) == IF ScoreLeq(x, y) THEN y ELSE x

\* fuzz.ratio: normalized Indel similarity, 100 * 2*lcs / (len(a)+len(b))
Ratio(a, b) ==
    IF Len(a) + Len(b) = 0 THEN <<100, 1>>
    ELSE <<200 * LCS(a, b), Len(a) + Len(b)>>

\* fuzz.partial_ratio: the best ratio of the shorter string against a
\* window of the longer one
PartialRatio(a, b) ==
    LET short  == IF Len(a) <= Len(b) THEN a ELSE b
        long   == IF Len(a) <= Len(b) THEN b ELSE a
        wins   == {<<i, j>> \in (1..Len(long)) \X (1..Len(long)) :
                      i <= j /\ j - i + 1 <= Len(short)}
        ratios == {Ratio(short, SubSeq(long, w[1], w[2])) : w \in wins}
    IN  CHOOSE x \in ratios : \A y \in ratios : ScoreLeq(y, x)

\* fuzz.WRatio for strings that hold one token each: 0 for an empty string,
\* the plain ratio when the lengths are within a factor 1.5, else the better
\* of the ratio and the scaled partial ratio
WRatio(q, c) ==
    IF Len(q) = 0 \/ Len(c) = 0 THEN <<0, 1>>
    ELSE LET lmax == Max2(Len(q), Len(c))
             lmin == Min2(Len(q), Len(c))
             r    == Ratio(q, c)
             p    == PartialRatio(q, c)
         IN  IF 2 * lmax < 3 * lmin THEN r
             ELSE IF lmax <= 8 * lmin
                  THEN ScoreMax(r, <<9 * p[1], 10 * p[2]>>)
                  ELSE ScoreMax(r, <<6 * p[1], 10 * p[2]>>)

\* mutant: the score is rounded to the nearest integer
IntScoreRounded(x) == (2 * x[1] + x[2]) \div (2 * x[2])

\* int(score)
IntScore(x) == x[1] \div x[2]


-----------------------------------------------------------------------------
(* FuzzyMatcher *)

RECURSIVE InsertDesc(_, _)
\* m put into a list sorted by descending score, after every entry that
\* scores as well as m (so equal scores stay in choice order)
InsertDesc(m, sorted) ==
    IF sorted = <<>> THEN <<m>>
    ELSE IF ScoreLeq(m[2], sorted[1][2])
         THEN <<sorted[1]>> \o InsertDesc(m, Tail(sorted))
         ELSE <<m>> \o sorted

\* mutant: a score equal to the cutoff is dropped
reaches_cutoff_strict(sc, score_cutoff) == ~ScoreLeq(sc, <<score_cutoff, 1>>)

\* score_cutoff: a choice is kept when its score is at least the cutoff
reaches_cutoff(sc, score_cutoff) == ScoreLeq(<<score_cutoff, 1>>, sc)

RECURSIVE Scored(_, _, _, _)
\* the first i choices scoring at least score_cutoff, as <<choice, score,
\* index>>, best first
Scored(query, choices, i, score_cutoff) ==
    IF i = 0 THEN <<>>
    ELSE LET sc   == WRatio(query, choices[i])
             rest == Scored(query, choices, i - 1, score_cutoff)
         IN  IF reaches_cutoff(sc, score_cutoff)
             THEN InsertDesc(<<choices[i], sc, i>>, rest)
             ELSE rest

\* mutant: the limit is not applied
extract_unlimited(query, choices, limit, score_cutoff) ==
    Scored(query, choices, Len(choices), score_cutoff)

\* rapidfuzz process.extract(query, choices, scorer=fuzz.WRatio, limit,
\* score_cutoff): the choices scoring at least score_cutoff, best first, ties
\* in choice order, cut to the first `limit`
extract(query, choices, limit, score_cutoff) ==
    LET all == Scored(query, choices, Len(choices), score_cutoff)
    IN  SubSeq(all, 1, Min2(limit, Len(all)))

\* FuzzyMatcher(threshold, max_results)
FuzzyMatcher(threshold, max_results) ==
    [threshold |-> threshold, max_results |-> max_results]

\* FuzzyMatcher.find_matches(query, candidates, threshold=None, limit=None)
find_matches(self, query, candidates, threshold, limit) ==
    IF candidates = <<>> THEN <<>>
    ELSE LET effective_threshold == IF threshold # None THEN threshold[1]
                                    ELSE self.threshold
             effective_limit     == IF limit # None THEN limit[1]
                                    ELSE self.max_results
             query_normalized    == Strip(Lower(query))
             results == extract(query_normalized, candidates,
                                effective_limit, effective_threshold)
         IN  [k \in 1..Len(results) |->
                 [name |-> results[k][1], score |-> IntScore(results[k][2])]]

RECURSIVE extractOneLatest(_, _, _, _)
\* mutant: among equal scores the later choice is kept
extractOneLatest(query, choices, i, score_cutoff) ==
    IF i = 0 THEN None
    ELSE LET result == extractOneLatest(query, choices, i - 1, score_cutoff)
             sc     == WRatio(query, choices[i])
         IN  IF /\ reaches_cutoff(sc, score_cutoff)
                /\ (result = None \/ ScoreLeq(result[1][2], sc))
             THEN Some(<<choices[i], sc, i>>)
             ELSE result

RECURSIVE extractOne(_, _, _, _)
\* rapidfuzz process.extractOne(query, choices, scorer=fuzz.WRatio,
\* score_cutoff) over the first i choices: one scan in choice order that
\* keeps a choice when it reaches the cutoff and scores strictly more than
\* the one kept so far; None when no choice reaches the cutoff
extractOne(query, choices, i, score_cutoff) ==
    IF i = 0 THEN None
    ELSE LET result == extractOne(query, choices, i - 1, score_cutoff)
             sc     == WRatio(query, choices[i])
         IN  IF /\ reaches_cutoff(sc, score_cutoff)
                /\ (result = None \/ ~ScoreLeq(sc, result[1][2]))
             THEN Some(<<choices[i], sc, i>>)
             ELSE result

\* FuzzyMatcher.find_best_match(query, candidates, threshold=None)
find_best_match(self, query, candidates, threshold) ==
    IF candidates = <<>> THEN None
    ELSE LET effective_threshold == IF threshold # None THEN threshold[1]
                                    ELSE self.threshold
             query_normalized    == Strip(Lower(query))
             result == extractOne(query_normalized, candidates,
                                  Len(candidates), effective_threshold)
         IN  IF result = None THEN None
             ELSE Some([name |-> result[1][1], score |-> IntScore(result[1][2])])

-----------------------------------------------------------------------------
(* The raw snapshot.  raw is data["schemas"]: a sequence of schema entries  *)
(* [name, tables], tables a sequence of [name, columns], columns a list of  *)
(* names.  Keys of one mapping are pairwise distinct as exact strings (they *)
(* may differ in letter case only); a column list may repeat a name.        *)

n_a  == <<"a">>
n_A  == <<"A">>
n_ab == <<"a", "b">>

\* the names a snapshot may use: non-empty, trimmed, arbitrary casing
Names == {n_a, n_A, n_ab}

RECURSIVE TableEntries(_)
\* number of objects a tables mapping declares: its tables and their columns
TableEntries(tables) ==
    IF tables = <<>> THEN 0
    ELSE 1 + Len(tables[1].columns) + TableEntries(Tail(tables))

RECURSIVE Entries(_)
\* number of objects the snapshot declares
Entries(r) ==
    IF r = <<>> THEN 0
    ELSE 1 + TableEntries(r[1].tables) + Entries(Tail(r))

Keys(entries) == {entries[i].name : i \in 1..Len(entries)}

\* the exporter declares a schema
DeclareSchema(s) ==
    /\ ~cache.is_loaded
    /\ Entries(raw) < MaxEntries
    /\ s \notin Keys(raw)
    /\ raw' = Append(raw, [name |-> s, tables |-> <<>>])
    /\ UNCHANGED <<settings, cache, request, response, loading, registry>>

\* the exporter declares a table under the i-th schema
DeclareTable(i, t) ==
    /\ ~cache.is_loaded
    /\ Entries(raw) < MaxEntries
    /\ i \in 1..Len(raw)
    /\ t \notin Keys(raw[i].tables)
    /\ raw' = [raw EXCEPT ![i].tables = Append(@, [name |-> t, columns |-> <<>>])]
    /\ UNCHANGED <<settings, cache, request, response, loading, registry>>

\* the exporter appends a column to the j-th table of the i-th schema
AppendColumn(i, j, c) ==
    /\ ~cache.is_loaded
    /\ Entries(raw) < MaxEntries
    /\ i \in 1..Len(raw)
    /\ j \in 1..Len(raw[i].tables)
    /\ raw' = [raw EXCEPT ![i].tables[j].columns = Append(@, c)]
    /\ UNCHANGED <<settings, cache, request, response, loading, registry>>

\* the unpickled file content
Data(r) == [exported_at |-> Some(<<"t">>), schemas |-> r]

-----------------------------------------------------------------------------
(* EnvironmentCache *)

\* EnvironmentCache(): the dataclass defaults
EnvironmentCache ==
    [ environment            |-> <<>>,
      schemas                |-> <<>>,
      schemas_set            |-> {},
      tables_set             |-> {},
      columns_set            |-> {},
      schemas_list           |-> <<>>,
      tables_list            |-> <<>>,
      columns_list           |-> <<>>,
      schemas_map            |-> EmptyDict,
      tables_map             |-> EmptyDict,
      columns_map            |-> EmptyDict,
      tables_by_schema       |-> EmptyDict,
      tables_list_by_schema  |-> EmptyDict,
      columns_by_table       |-> EmptyDict,
      columns_list_by_table  |-> EmptyDict,
      qualified_tables_list  |-> <<>>,
      qualified_tables_map   |-> EmptyDict,
      qualified_columns_list |-> <<>>,
      qualified_columns_map  |-> EmptyDict,
      exported_at            |-> None,
      loaded_at              |-> None,
      is_loaded              |-> FALSE ]

\* EnvironmentCache._reset_structures
reset_structures(self) ==
    [ self EXCEPT
      !.schemas                = <<>>,
      !.schemas_set            = {},
      !.tables_set             = {},
      !.columns_set            = {},
      !.schemas_list           = <<>>,
      !.tables_list            = <<>>,
      !.columns_list           = <<>>,
      !.schemas_map            = EmptyDict,
      !.tables_map             = EmptyDict,
      !.columns_map            = EmptyDict,
      !.tables_by_schema       = EmptyDict,
      !.tables_list_by_schema  = EmptyDict,
      !.columns_by_table       = EmptyDict,
      !.columns_list_by_table  = EmptyDict,
      !.qualified_tables_list  = <<>>,
      !.qualified_tables_map   = EmptyDict,
      !.qualified_columns_list = <<>>,
      !.qualified_columns_map  = EmptyDict ]

\* mutant: a schema seen again keeps its table list while its table set is
\* emptied
SchemaStepKeepingList(self, schema_name) ==
    LET schema_lower == Lower(schema_name)
    IN  [ self EXCEPT
          !.schemas_set           = @ \cup {schema_lower},
          !.schemas_list          = Append(@, schema_lower),
          !.schemas_map           = Put(@, schema_lower, schema_name),
          !.tables_by_schema      = Put(@, schema_lower, {}),
          !.tables_list_by_schema = Put(@, schema_lower, Get(@, schema_lower, <<>>)) ]

\* _build_from_raw_data, the body of the schema loop before the table loop
SchemaStep(self, schema_name) ==
    LET schema_lower == Lower(schema_name)
    IN  [ self EXCEPT
          !.schemas_set           = @ \cup {schema_lower},
          !.schemas_list          = Append(@, schema_lower),
          !.schemas_map           = Put(@, schema_lower, schema_name),
          !.tables_by_schema      = Put(@, schema_lower, {}),
          !.tables_list_by_schema = Put(@, schema_lower, <<>>) ]

\* _build_from_raw_data, the body of the table loop before the column loop
TableStep(self, schema_name, table_name) ==
    LET schema_lower == Lower(schema_name)
        table_lower  == Lower(table_name)
        first        == table_lower \notin DOMAIN self.tables_map
        table_key    == <<schema_lower, table_lower>>
        qualified_table       == Dot(schema_name, table_name)
        qualified_table_lower == Lower(qualified_table)
    IN  [ self EXCEPT
          !.tables_set            = @ \cup {table_lower},
          !.tables_list           = IF first THEN Append(@, table_lower) ELSE @,
          !.tables_map            = IF first THEN Put(@, table_lower, table_name) ELSE @,
          !.tables_by_schema      = Put(@, schema_lower, @[schema_lower] \cup {table_lower}),
          !.tables_list_by_schema = Put(@, schema_lower, Append(@[schema_lower], table_lower)),
          !.columns_by_table      = Put(@, table_key, {}),
          !.columns_list_by_table = Put(@, table_key, <<>>),
          !.qualified_tables_list = Append(@, qualified_table_lower),
          !.qualified_tables_map  = Put(@, qualified_table_lower, qualified_table) ]

\* _build_from_raw_data, the body of the column loop
ColumnStep(self, schema_name, table_name, column_name) ==
    LET table_key    == <<Lower(schema_name), Lower(table_name)>>
        column_lower == Lower(column_name)
        first        == column_lower \notin DOMAIN self.columns_map
        qualified_column == Dot(Dot(schema_name, table_name), column_name)
        qualified_column_lower == Lower(qualified_column)
    IN  [ self EXCEPT
          !.columns_set            = @ \cup {column_lower},
          !.columns_list           = IF first THEN Append(@, column_lower) ELSE @,
          !.columns_map            = IF first THEN Put(@, column_lower, column_name) ELSE @,
          !.columns_by_table       = Put(@, table_key, @[table_key] \cup {column_lower}),
          !.columns_list_by_table  = Put(@, table_key, Append(@[table_key], column_lower)),
          !.qualified_columns_list = Append(@, qualified_column_lower),
          !.qualified_columns_map  = Put(@, qualified_column_lower, qualified_column) ]

RECURSIVE ColumnLoop(_, _, _, _)
\* for column_name in columns
ColumnLoop(self, schema_name, table_name, columns) ==
    IF columns = <<>> THEN self
    ELSE ColumnLoop(ColumnStep(self, schema_name, table_name, columns[1]),
                    schema_name, table_name, Tail(columns))

RECURSIVE TableLoop(_, _, _)
\* for table_name, columns in tables_data.items()
TableLoop(self, schema_name, tables_data) ==
    IF tables_data = <<>> THEN self
    ELSE TableLoop(ColumnLoop(TableStep(self, schema_name, tables_data[1].name),
                              schema_name, tables_data[1].name,
                              tables_data[1].columns),
                   schema_name, Tail(tables_data))

RECURSIVE SchemaLoop(_, _)
\* for schema_name, schema_data in raw_schemas.items()
SchemaLoop(self, raw_schemas) ==
    IF raw_schemas = <<>> THEN self
    ELSE SchemaLoop(TableLoop(SchemaStep(self, raw_schemas[1].name),
                              raw_schemas[1].name, raw_schemas[1].tables),
                    Tail(raw_schemas))

\* EnvironmentCache._build_from_raw_data
build_from_raw_data(self, data) ==
    LET raw_schemas == data.schemas
        cleared     == [reset_structures([self EXCEPT !.exported_at = data.exported_at])
                           EXCEPT !.schemas = raw_schemas]
    IN  SchemaLoop(cleared, raw_schemas)

\* mutant: a snapshot without schemas is not marked as loaded
load_unless_empty(self, data, environment) ==
    [ build_from_raw_data([self EXCEPT !.environment = environment], data)
      EXCEPT !.loaded_at = Some(<<"now">>), !.is_loaded = (data.schemas # <<>>) ]

\* EnvironmentCache.load, the file being present and readable
load(self, data, environment) ==
    [ build_from_raw_data([self EXCEPT !.environment = environment], data)
      EXCEPT !.loaded_at = Some(<<"now">>), !.is_loaded = TRUE ]

\* the service loads the environment's snapshot into a new EnvironmentCache
Load ==
    /\ ~cache.is_loaded
    /\ cache' = load(EnvironmentCache, Data(raw), <<"d", "e", "v">>)
    /\ UNCHANGED <<raw, settings, request, response, loading, registry>>

\* EnvironmentCache.load step by step, as a reader of the same object sees
\* it.  load begins: the file is opened and unpickled, environment is set,
\* and _build_from_raw_data takes exported_at, resets the structures and
\* stores the raw data
BeginLoad ==
    /\ loading.pc = "idle"
    /\ loading.calls < MaxLoads
    /\ cache' = [ reset_structures([cache EXCEPT !.environment = <<"d", "e", "v">>,
                                                 !.exported_at = Data(raw).exported_at])
                  EXCEPT !.schemas = raw ]
    /\ loading' = [loading EXCEPT !.pc = "build", !.todo = raw]
    /\ UNCHANGED <<raw, settings, request, response, registry>>

\* one iteration of the schema loop of _build_from_raw_data
BuildSchema ==
    /\ loading.pc = "build"
    /\ loading.todo # <<>>
    /\ cache' = TableLoop(SchemaStep(cache, loading.todo[1].name),
                          loading.todo[1].name, loading.todo[1].tables)
    /\ loading' = [loading EXCEPT !.todo = Tail(@)]
    /\ UNCHANGED <<raw, settings, request, response, registry>>

\* the loop is over: load sets loaded_at and is_loaded and returns
EndLoad ==
    /\ loading.pc = "build"
    /\ loading.todo = <<>>
    /\ cache' = [cache EXCEPT !.loaded_at = Some(<<"now">>), !.is_loaded = TRUE]
    /\ loading' = [loading EXCEPT !.pc = "idle", !.calls = @ + 1]
    /\ UNCHANGED <<raw, settings, request, response, registry>>

-----------------------------------------------------------------------------
(* EnvironmentCache lookups *)

\* dict.get(normalized): the value, or None
Lookup(d, k) == IF k \in DOMAIN d THEN Some(d[k]) ELSE None

\* mutant: the lookup answers with the normalized name it was asked for
get_original_schema_normalized(self, normalized) ==
    IF normalized \in DOMAIN self.schemas_map THEN Some(normalized) ELSE None

get_original_schema(self, normalized) == Lookup(self.schemas_map, normalized)

get_original_table(self, normalized) == Lookup(self.tables_map, normalized)

get_original_column(self, normalized) == Lookup(self.columns_map, normalized)

schema_exists(self, name) == Lower(name) \in self.schemas_set

table_exists(self, name, schema) ==
    LET table_lower == Lower(name)
    IN  IF Truthy(schema)
        THEN table_lower \in Get(self.tables_by_schema, Lower(schema[1]), {})
        ELSE table_lower \in self.tables_set

\* mutant: a table name alone already narrows the lookup to that table
column_exists_by_table(self, name, schema, table) ==
    LET column_lower == Lower(name)
    IN  IF Truthy(table)
        THEN \E key \in DOMAIN self.columns_by_table :
                 /\ key[2] = Lower(table[1])
                 /\ Truthy(schema) => key[1] = Lower(schema[1])
                 /\ column_lower \in self.columns_by_table[key]
        ELSE column_lower \in self.columns_set

column_exists(self, name, schema, table) ==
    LET column_lower == Lower(name)
    IN  IF Truthy(schema) /\ Truthy(table)
        THEN column_lower \in
                 Get(self.columns_by_table, <<Lower(schema[1]), Lower(table[1])>>, {})
        ELSE column_lower \in self.columns_set

\* mutant: the table candidates ignore the schema of the context
get_candidates_for_scope_unscoped(self, scope, schema, table) ==
    CASE scope = "schema" -> self.schemas_list
      [] scope = "table" -> self.tables_list
      [] scope = "column" ->
            IF Truthy(schema) /\ Truthy(table)
            THEN Get(self.columns_list_by_table,
                     <<Lower(schema[1]), Lower(table[1])>>, <<>>)
            ELSE self.columns_list
      [] OTHER -> <<>>

get_candidates_for_scope(self, scope, schema, table) ==
    CASE scope = "schema" -> self.schemas_list
      [] scope = "table" ->
            IF Truthy(schema)
            THEN Get(self.tables_list_by_schema, Lower(schema[1]), <<>>)
            ELSE self.tables_list
      [] scope = "column" ->
            IF Truthy(schema) /\ Truthy(table)
            THEN Get(self.columns_list_by_table,
                     <<Lower(schema[1]), Lower(table[1])>>, <<>>)
            ELSE self.columns_list
      [] OTHER -> <<>>

get_original_for_scope(self, scope, normalized) ==
    CASE scope = "schema" -> get_original_schema(self, normalized)
      [] scope = "table"  -> get_original_table(self, normalized)
      [] scope = "column" -> get_original_column(self, normalized)
      [] OTHER -> None

\* the order in which a dict built by appending the keys of `inserted` one
\* by one iterates: each key at the place of its first insertion
RECURSIVE FirstOccurrences(_)
FirstOccurrences(inserted) ==
    IF inserted = <<>> THEN <<>>
    ELSE LET before == FirstOccurrences(SubSeq(inserted, 1, Len(inserted) - 1))
             last   == inserted[Len(inserted)]
         IN  IF last \in SeqSet(before) THEN before ELSE Append(before, last)

\* the (schema_lower, table_lower) keys in the order the build inserts them
\* into columns_by_table
RECURSIVE TableKeys(_)
TableKeys(schemas) ==
    IF schemas = <<>> THEN <<>>
    ELSE [j \in 1..Len(schemas[1].tables) |->
             <<Lower(schemas[1].name), Lower(schemas[1].tables[j].name)>>]
         \o TableKeys(Tail(schemas))

\* iterating a set of strings: the members, in the order hash_order ranks them
IterSet(S, hash_order) ==
    LET member(x) == x \in S
    IN  SelectSeq(hash_order, member)

RECURSIVE SearchableTables(_, _, _, _)
\* get_searchable_candidates_for_scope, the loop over tables_by_schema.items()
SearchableTables(self, keys, schema, hash_order) ==
    IF keys = <<>> THEN <<>>
    ELSE LET schema_name == keys[1]
             tables      == IterSet(self.tables_by_schema[schema_name], hash_order)
             rest        == SearchableTables(self, Tail(keys), schema, hash_order)
         IN  IF Truthy(schema) /\ Lower(schema[1]) # schema_name
             THEN rest
             ELSE [k \in 1..Len(tables) |->
                      <<tables[k], Dot(schema_name, tables[k])>>] \o rest

RECURSIVE SearchableColumns(_, _, _, _, _)
\* get_searchable_candidates_for_scope, the loop over columns_by_table.items()
SearchableColumns(self, keys, schema, table, hash_order) ==
    IF keys = <<>> THEN <<>>
    ELSE LET schema_name == keys[1][1]
             table_name  == keys[1][2]
             columns     == IterSet(self.columns_by_table[keys[1]], hash_order)
             rest        == SearchableColumns(self, Tail(keys), schema, table, hash_order)
         IN  IF Truthy(schema) /\ Lower(schema[1]) # schema_name
             THEN rest
             ELSE IF Truthy(table) /\ Lower(table[1]) # table_name
             THEN rest
             ELSE [k \in 1..Len(columns) |->
                      <<columns[k], Dot(Dot(schema_name, table_name), columns[k])>>]
                  \o rest

\* EnvironmentCache.get_searchable_candidates_for_scope: the pairs
\* <<search_key, qualified_name>>; hash_order is the order in which this
\* process iterates sets of strings
get_searchable_candidates_for_scope(self, scope, schema, table, hash_order) ==
    CASE scope = "schema" ->
            [i \in 1..Len(self.schemas_list) |->
                <<self.schemas_list[i], self.schemas_list[i]>>]
      [] scope = "table" ->
            SearchableTables(self, FirstOccurrences(self.schemas_list), schema,
                             hash_order)
      [] scope = "column" ->
            SearchableColumns(self, FirstOccurrences(TableKeys(self.schemas)),
                              schema, table, hash_order)
      [] OTHER -> <<>>

\* EnvironmentCache.get_original_qualified
get_original_qualified(self, scope, normalized) ==
    CASE scope = "schema" -> Lookup(self.schemas_map, normalized)
      [] scope = "table"  -> Lookup(self.qualified_tables_map, normalized)
      [] scope = "column" -> Lookup(self.qualified_columns_map, normalized)
      [] OTHER -> None

-----------------------------------------------------------------------------
(* Validator *)

\* mutant: the search term is lowercased but not trimmed
normalize_term_untrimmed(search_term) == Lower(search_term)

\* search_term.lower().strip()
normalize_term(search_term) == Strip(Lower(search_term))

\* Validator._check_exact_match: the original casing, or None
check_exact_match(c, scope, normalized_term, schema_name, table_name) ==
    CASE scope = "schema" ->
            IF schema_exists(c, normalized_term)
            THEN get_original_schema(c, normalized_term) ELSE None
      [] scope = "table" ->
            IF table_exists(c, normalized_term, schema_name)
            THEN get_original_table(c, normalized_term) ELSE None
      [] scope = "column" ->
            IF column_exists(c, normalized_term, schema_name, table_name)
            THEN get_original_column(c, normalized_term) ELSE None
      [] OTHER -> None

\* mutant: suggestions carry the normalized candidate, not its original
find_fuzzy_suggestions_normalized(c, fuzzy_matcher, scope, search_term, schema_name, table_name) ==
    LET candidates == get_candidates_for_scope(c, scope, schema_name, table_name)
        matches    == find_matches(fuzzy_matcher, search_term, candidates, None, None)
    IN  IF candidates = <<>> \/ matches = <<>> THEN None ELSE Some(matches)

\* Validator._find_fuzzy_suggestions: a non-empty list of Suggestion, or None
find_fuzzy_suggestions(c, fuzzy_matcher, scope, search_term, schema_name, table_name) ==
    LET candidates == get_candidates_for_scope(c, scope, schema_name, table_name)
        matches    == find_matches(fuzzy_matcher, search_term, candidates, None, None)
        original(m) == get_original_for_scope(c, scope, m.name)
        Kept(m)    == Truthy(original(m))
        kept       == SelectSeq(matches, Kept)
        suggestions == [k \in 1..Len(kept) |->
                           [name |-> original(kept[k])[1], score |-> kept[k].score]]
    IN  IF candidates = <<>> THEN None
        ELSE IF matches = <<>> THEN None
        ELSE IF suggestions # <<>> THEN Some(suggestions) ELSE None

\* Validator.validate.  `stages` lists the stages the call went through.
validate(c, fuzzy_matcher, scope, search_term, schema_name, table_name) ==
    LET normalized_term == normalize_term(search_term)
        exact_match == check_exact_match(c, scope, normalized_term,
                                         schema_name, table_name)
        suggestions == find_fuzzy_suggestions(c, fuzzy_matcher, scope, search_term,
                                              schema_name, table_name)
    IN  IF Truthy(exact_match)
        THEN [status |-> "valid", match |-> exact_match, suggestions |-> None,
              stages |-> <<"exact">>]
        ELSE IF suggestions # None
        THEN [status |-> "suggestions", match |-> None, suggestions |-> suggestions,
              stages |-> <<"exact", "fuzzy">>]
        ELSE [status |-> "not_found", match |-> None, suggestions |-> Some(<<>>),
              stages |-> <<"exact", "fuzzy">>]

-----------------------------------------------------------------------------
(* Requests *)

Scopes == {"schema", "table", "column"}

\* search terms a caller sends: at least one character, any casing, possibly
\* padded with whitespace
Terms == {<<" ", "A">>, <<"a", "b">>, <<"a", "a">>, <<"b">>}

\* context names a caller sends: absent, or a name in any casing, possibly
\* padded with whitespace
ContextNames == {None, Some(<<"A">>), Some(<<" ", "A">>), Some(<<"a", "b">>)}

\* the validate endpoint, on the loaded environment: a Validator over the
\* cache with the configured matcher answers the request
Validate(scope, search_term, schema_name, table_name) ==
    /\ request = None
    /\ cache.is_loaded
    /\ Entries(raw) <= MaxServed
    /\ request' = Some([scope |-> scope, search_term |-> search_term,
                        schema_name |-> schema_name, table_name |-> table_name])
    /\ response' = Some(validate(cache,
                                 FuzzyMatcher(settings.fuzzy_threshold,
                                              settings.max_suggestions),
                                 scope, search_term, schema_name, table_name))
    /\ UNCHANGED <<raw, settings, cache, loading, registry>>

\* the response goes back to the caller; nothing of the call is kept
Reply ==
    /\ request # None
    /\ request' = None
    /\ response' = None
    /\ UNCHANGED <<raw, settings, cache, loading, registry>>

-----------------------------------------------------------------------------
(* Typeahead: the suggest endpoints *)

\* [c[0] for c in candidates]
search_keys_of(candidates) == [i \in 1..Len(candidates) |-> candidates[i][1]]

\* {c[0]: c[1] for c in candidates}: a later pair replaces an earlier one
\* with the same search key
key_to_qualified_of(candidates) ==
    [k \in SeqSet(search_keys_of(candidates)) |->
        LET last == CHOOSE i \in 1..Len(candidates) :
                        /\ candidates[i][1] = k
                        /\ \A j \in 1..Len(candidates) : candidates[j][1] = k => j <= i
        IN  candidates[last][2]]

RECURSIVE SuggestResults(_, _, _, _, _)
\* the result loop of suggest over the first n matches
SuggestResults(c, scope, key_to_qualified, matches, n) ==
    IF n = 0 THEN <<>>
    ELSE LET results         == SuggestResults(c, scope, key_to_qualified, matches, n - 1)
             qualified_lower == key_to_qualified[matches[n][1]]
             original        == get_original_qualified(c, scope, qualified_lower)
         IN  IF Truthy(original) /\ original[1] \notin SeqSet(results)
             THEN Append(results, original[1])
             ELSE results

\* routers/suggest.py suggest, once the environment's cache is at hand
suggest(c, scope, q, schema_name, table_name, threshold, limit, hash_order) ==
    LET candidates == get_searchable_candidates_for_scope(c, scope, schema_name,
                                                          table_name, hash_order)
    IN  IF candidates = <<>> THEN <<>>
        ELSE LET search_keys      == search_keys_of(candidates)
                 key_to_qualified == key_to_qualified_of(candidates)
                 query_lower      == Strip(Lower(q))
                 matches          == extract(query_lower, search_keys, limit, threshold)
             IN  SuggestResults(c, scope, key_to_qualified, matches, Len(matches))

RECURSIVE ScoredResults(_, _, _, _, _)
\* the result loop of suggest_with_scores over the first n matches
ScoredResults(c, scope, key_to_qualified, matches, n) ==
    IF n = 0 THEN <<>>
    ELSE LET results         == ScoredResults(c, scope, key_to_qualified, matches, n - 1)
             seen            == {results[i].name : i \in 1..Len(results)}
             qualified_lower == key_to_qualified[matches[n][1]]
             original        == get_original_qualified(c, scope, qualified_lower)
         IN  IF Truthy(original) /\ original[1] \notin seen
             THEN Append(results, [name  |-> original[1],
                                   score |-> IntScore(matches[n][2])])
             ELSE results

\* routers/suggest.py suggest_with_scores, once the environment's cache is
\* at hand
suggest_with_scores(c, scope, q, schema_name, table_name, threshold, limit, hash_order) ==
    LET candidates == get_searchable_candidates_for_scope(c, scope, schema_name,
                                                          table_name, hash_order)
    IN  IF candidates = <<>> THEN <<>>
        ELSE LET search_keys      == search_keys_of(candidates)
                 key_to_qualified == key_to_qualified_of(candidates)
                 query_lower      == Strip(Lower(q))
                 matches          == extract(query_lower, search_keys, limit, threshold)
             IN  ScoredResults(c, scope, key_to_qualified, matches, Len(matches))

\* queries a caller types: at least two characters
Queries == {<<" ", "A">>, <<"a", "b">>}

\* context names of a typeahead request
FilterNames == {None, Some(<<"A">>)}

\* the orders in which a process may iterate a set of lowercased names
HashOrders ==
    LET lowered == {Lower(n) : n \in Names}
    IN  {o \in [1..Cardinality(lowered) -> lowered] : SeqSet(o) = lowered}

\* GET /suggest on the loaded environment, threshold and limit at their
\* configured defaults
Suggest(scope, q, schema_name, table_name, hash_order) ==
    /\ request = None
    /\ cache.is_loaded
    /\ request' = Some([endpoint |-> "suggest", scope |-> scope, q |-> q,
                        schema_name |-> schema_name, table_name |-> table_name,
                        hash_order |-> hash_order])
    /\ response' = Some(suggest(cache, scope, q, schema_name, table_name,
                                settings.fuzzy_threshold, settings.max_suggestions,
                                hash_order))
    /\ UNCHANGED <<raw, settings, cache, loading, registry>>

\* GET /suggest/with-scores on the loaded environment
SuggestWithScores(scope, q, schema_name, table_name, hash_order) ==
    /\ request = None
    /\ cache.is_loaded
    /\ request' = Some([endpoint |-> "with-scores", scope |-> scope, q |-> q,
                        schema_name |-> schema_name, table_name |-> table_name,
                        hash_order |-> hash_order])
    /\ response' = Some(suggest_with_scores(cache, scope, q, schema_name, table_name,
                                            settings.fuzzy_threshold,
                                            settings.max_suggestions, hash_order))
    /\ UNCHANGED <<raw, settings, cache, loading, registry>>

-----------------------------------------------------------------------------
(* MetadataCacheManager: the registry of environment caches *)

prod  == <<"p", "r", "o", "d">>
stage == <<"s", "t", "a", "g", "e">>
qa    == <<"q", "a">>
dev   == <<"d", "e", "v">>

\* the environments a request may name
Environments == <<prod, stage, qa, dev>>

\* settings.available_environments: the environments the service is
\* configured with
available_environments == SubSeq(Environments, 1, MaxEnvs)

\* the snapshot file of an environment: absent; present but not unpicklable;
\* present with content on which the build raises after its last entry;
\* present and well-formed
Missing == [kind |-> "missing"]
Corrupt == [kind |-> "corrupt"]
Malformed(schemas) == [kind |-> "malformed", schemas |-> schemas]
Valid(schemas) == [kind |-> "valid", schemas |-> schemas]

\* a snapshot with two schemas
TwoSchemas ==
    << [name |-> n_A, tables |-> <<[name |-> n_a, columns |-> <<n_ab>>]>>],
       [name |-> n_ab, tables |-> <<>>] >>

FileStates == {Missing, Corrupt, Malformed(TwoSchemas), Valid(<<>>), Valid(TwoSchemas)}

\* no call of load_all_environments is running
LoaderIdle ==
    [pc |-> "idle", calls |-> 0, i |-> 0, cache |-> 0, todo |-> <<>>,
     results |-> EmptyDict]

\* no request is being handled
ReaderIdle == [pc |-> "idle", cache |-> 0]

\* the environment the loop of load_all_environments is at
env == available_environments[loader.i]

\* somebody replaces an environment's snapshot file, between two loads
WriteFile(environment, file) ==
    /\ loader.pc = "idle"
    /\ 1 <= loader.calls /\ loader.calls < MaxCalls
    /\ reader.pc = "idle"
    /\ files[environment] # file
    /\ files' = [files EXCEPT ![environment] = file]
    /\ UNCHANGED <<raw, settings, cache, request, response, loading,
                   heap, _caches, _available_environments, loader, reader>>

\* load_all_environments is called: results = {}
StartLoadAll ==
    /\ loader.pc = "idle"
    /\ loader.calls < MaxCalls
    /\ loader' = [loader EXCEPT !.pc = "attempt", !.calls = @ + 1, !.i = 1,
                                !.results = EmptyDict]
    /\ UNCHANGED <<raw, settings, cache, request, response, loading,
                   files, heap, _caches, _available_environments, reader>>

\* pickle_path.exists() is false: results[env] = "file not found"
SkipMissing ==
    /\ loader.pc = "attempt"
    /\ loader.i <= Len(available_environments)
    /\ files[env].kind = "missing"
    /\ loader' = [loader EXCEPT !.results = Put(@, env, "file not found"),
                                !.i = @ + 1]
    /\ UNCHANGED <<raw, settings, cache, request, response, loading,
                   files, heap, _caches, _available_environments, reader>>

\* mutant: the new cache is put into the registry before it is loaded
ConstructRegistered ==
    /\ loader.pc = "attempt"
    /\ loader.i <= Len(available_environments)
    /\ files[env].kind # "missing"
    /\ heap' = Append(heap, EnvironmentCache)
    /\ _caches' = Put(_caches, env, Len(heap) + 1)
    /\ loader' = [loader EXCEPT !.pc = "load", !.cache = Len(heap) + 1]
    /\ UNCHANGED <<raw, settings, cache, request, response, loading,
                   files, _available_environments, reader>>

\* pickle_path.exists() is true: cache = EnvironmentCache()
Construct ==
    /\ loader.pc = "attempt"
    /\ loader.i <= Len(available_environments)
    /\ files[env].kind # "missing"
    /\ heap' = Append(heap, EnvironmentCache)
    /\ loader' = [loader EXCEPT !.pc = "load", !.cache = Len(heap) + 1]
    /\ UNCHANGED <<raw, settings, cache, request, response, loading,
                   files, _caches, _available_environments, reader>>

\* cache.load(...) unpickles the file, sets environment, and the build
\* takes exported_at, resets the structures and stores the raw data
LoadOpens ==
    /\ loader.pc = "load"
    /\ files[env].kind \in {"valid", "malformed"}
    /\ heap' = [heap EXCEPT ![loader.cache] =
                   [ reset_structures([@ EXCEPT !.environment = env,
                                                !.exported_at = Some(<<"t">>)])
                     EXCEPT !.schemas = files[env].schemas ]]
    /\ loader' = [loader EXCEPT !.pc = "build", !.todo = files[env].schemas]
    /\ UNCHANGED <<raw, settings, cache, request, response, loading,
                   files, _caches, _available_environments, reader>>

\* one iteration of the schema loop on the new cache
LoadBuilds ==
    /\ loader.pc = "build"
    /\ loader.todo # <<>>
    /\ heap' = [heap EXCEPT ![loader.cache] =
                   TableLoop(SchemaStep(@, loader.todo[1].name),
                             loader.todo[1].name, loader.todo[1].tables)]
    /\ loader' = [loader EXCEPT !.todo = Tail(@)]
    /\ UNCHANGED <<raw, settings, cache, request, response, loading,
                   files, _caches, _available_environments, reader>>

\* cache.load(...) raises, unpickling or building
LoadRaising ==
    \/ loader.pc = "load" /\ files[env].kind = "corrupt"
    \/ loader.pc = "build" /\ loader.todo = <<>> /\ files[env].kind = "malformed"

\* mutant: no except clause, the exception leaves load_all_environments
LoadRaisesUncaught ==
    /\ LoadRaising
    /\ loader' = [loader EXCEPT !.pc = "raised"]
    /\ UNCHANGED <<raw, settings, cache, request, response, loading,
                   files, heap, _caches, _available_environments, reader>>

\* except Exception as e: results[env] = f"error: {str(e)}"
LoadRaises ==
    /\ LoadRaising
    /\ loader' = [loader EXCEPT !.pc = "attempt", !.i = @ + 1,
                                !.results = Put(@, env, "error")]
    /\ UNCHANGED <<raw, settings, cache, request, response, loading,
                   files, heap, _caches, _available_environments, reader>>

\* cache.load(...) sets loaded_at and is_loaded and returns
LoadReturns ==
    /\ loader.pc = "build"
    /\ loader.todo = <<>>
    /\ files[env].kind = "valid"
    /\ heap' = [heap EXCEPT ![loader.cache] =
                   [@ EXCEPT !.loaded_at = Some(<<"now">>), !.is_loaded = TRUE]]
    /\ loader' = [loader EXCEPT !.pc = "register"]
    /\ UNCHANGED <<raw, settings, cache, request, response, loading,
                   files, _caches, _available_environments, reader>>

\* self._caches[env] = cache
Register ==
    /\ loader.pc = "register"
    /\ _caches' = Put(_caches, env, loader.cache)
    /\ loader' = [loader EXCEPT !.pc = "append"]
    /\ UNCHANGED <<raw, settings, cache, request, response, loading,
                   files, heap, _available_environments, reader>>

\* self._available_environments.append(env)
AppendAvailable ==
    /\ loader.pc = "append"
    /\ _available_environments' = Append(_available_environments, env)
    /\ loader' = [loader EXCEPT !.pc = "result"]
    /\ UNCHANGED <<raw, settings, cache, request, response, loading,
                   files, heap, _caches, reader>>

\* results[env] = "loaded (...)"
RecordLoaded ==
    /\ loader.pc = "result"
    /\ loader' = [loader EXCEPT !.pc = "attempt", !.i = @ + 1,
                                !.results = Put(@, env, "loaded")]
    /\ UNCHANGED <<raw, settings, cache, request, response, loading,
                   files, heap, _caches, _available_environments, reader>>

\* the loop is over: return results
ReturnResults ==
    /\ loader.pc = "attempt"
    /\ loader.i > Len(available_environments)
    /\ loader' = [loader EXCEPT !.pc = "returned"]
    /\ UNCHANGED <<raw, settings, cache, request, response, loading,
                   files, heap, _caches, _available_environments, reader>>

\* lifespan logs the results and the service goes on
LogResults ==
    /\ loader.pc = "returned"
    /\ loader' = [loader EXCEPT !.pc = "idle"]
    /\ UNCHANGED <<raw, settings, cache, request, response, loading,
                   files, heap, _caches, _available_environments, reader>>

\* MetadataCacheManager.get_cache
get_cache(environment) == Lookup(_caches, environment)

\* MetadataCacheManager.is_any_loaded
is_any_loaded == Cardinality(DOMAIN _caches) > 0

\* HTTPException(status_code=...)
HTTPException(status_code) == [status_code |-> status_code]

\* a 200 response with its body
Ok(body) == [status_code |-> 200, body |-> body]

\* POST /validate, up to the construction of the Validator: 503 when no
\* cache is loaded, 400 when the environment has no loaded cache
ReceiveValidate(environment, scope, search_term) ==
    /\ reader.pc = "idle"
    /\ request' = Some([endpoint |-> "validate", environment |-> environment,
                        scope |-> scope, search_term |-> search_term])
    /\ IF ~is_any_loaded
       THEN /\ response' = Some(HTTPException(503))
            /\ reader' = [reader EXCEPT !.pc = "done"]
       ELSE LET c == get_cache(environment)
            IN  IF c = None \/ ~heap[c[1]].is_loaded
                THEN /\ response' = Some(HTTPException(400))
                     /\ reader' = [reader EXCEPT !.pc = "done"]
                ELSE /\ response' = None
                     /\ reader' = [pc |-> "validator", cache |-> c[1]]
    /\ UNCHANGED <<raw, settings, cache, loading,
                   files, heap, _caches, _available_environments, loader>>

\* mutant: the validator keeps the normalized search term in the index
AnswerValidateRemembering ==
    /\ reader.pc = "validator"
    /\ response' = Some(Ok(validate(heap[reader.cache],
                                    FuzzyMatcher(settings.fuzzy_threshold,
                                                 settings.max_suggestions),
                                    request[1].scope, request[1].search_term,
                                    None, None)))
    /\ heap' = [heap EXCEPT ![reader.cache].schemas_list =
                   Append(@, normalize_term(request[1].search_term))]
    /\ reader' = [reader EXCEPT !.pc = "done"]
    /\ UNCHANGED <<raw, settings, cache, request, loading,
                   files, _caches, _available_environments, loader>>

\* POST /validate: Validator(cache=cache).validate(...)
AnswerValidate ==
    /\ reader.pc = "validator"
    /\ response' = Some(Ok(validate(heap[reader.cache],
                                    FuzzyMatcher(settings.fuzzy_threshold,
                                                 settings.max_suggestions),
                                    request[1].scope, request[1].search_term,
                                    None, None)))
    /\ reader' = [reader EXCEPT !.pc = "done"]
    /\ UNCHANGED <<raw, settings, cache, request, loading,
                   files, heap, _caches, _available_environments, loader>>

\* GET /suggest and GET /suggest/with-scores, up to the candidates: 400 when
\* the environment has no loaded cache
ReceiveSuggest(endpoint, environment, scope, q) ==
    /\ reader.pc = "idle"
    /\ request' = Some([endpoint |-> endpoint, environment |-> environment,
                        scope |-> scope, q |-> q])
    /\ LET c == get_cache(environment)
       IN  IF c = None \/ ~heap[c[1]].is_loaded
           THEN /\ response' = Some(HTTPException(400))
                /\ reader' = [reader EXCEPT !.pc = "done"]
           ELSE /\ response' = None
                /\ reader' = [pc |-> "suggest", cache |-> c[1]]
    /\ UNCHANGED <<raw, settings, cache, loading,
                   files, heap, _caches, _available_environments, loader>>

\* GET /suggest and GET /suggest/with-scores: the candidates are matched and
\* resolved
AnswerSuggest(hash_order) ==
    /\ reader.pc = "suggest"
    /\ response' = Some(Ok(
           IF request[1].endpoint = "suggest"
           THEN suggest(heap[reader.cache], request[1].scope, request[1].q,
                        None, None, settings.fuzzy_threshold,
                        settings.max_suggestions, hash_order)
           ELSE suggest_with_scores(heap[reader.cache], request[1].scope,
                                    request[1].q, None, None,
                                    settings.fuzzy_threshold,
                                    settings.max_suggestions, hash_order)))
    /\ reader' = [reader EXCEPT !.pc = "done"]
    /\ UNCHANGED <<raw, settings, cache, request, loading,
                   files, heap, _caches, _available_environments, loader>>

\* the response goes back to the caller
Respond ==
    /\ reader.pc = "done"
    /\ request' = None
    /\ response' = None
    /\ reader' = ReaderIdle
    /\ UNCHANGED <<raw, settings, cache, loading,
                   files, heap, _caches, _available_environments, loader>>

-----------------------------------------------------------------------------
(* Specification *)

\* thresholds the service is configured with: the default and a stricter one
Thresholds == {fuzzy_threshold, fuzzy_threshold + 30}

Init ==
    /\ raw = <<>>
    /\ settings \in [fuzzy_threshold : Thresholds, max_suggestions : 1..MaxLimit]
    /\ cache = EnvironmentCache
    /\ request = None
    /\ response = None
    /\ loading = [pc |-> "idle", todo |-> <<>>, calls |-> 0]
    /\ files = [e \in SeqSet(available_environments) |-> Missing]
    /\ heap = <<>>
    /\ _caches = EmptyDict
    /\ _available_environments = <<>>
    /\ loader = LoaderIdle
    /\ reader = ReaderIdle

Export ==
    \/ \E s \in Names : DeclareSchema(s)
    \/ \E i \in 1..Len(raw), t \in Names : DeclareTable(i, t)
    \/ \E i \in 1..Len(raw) : \E j \in 1..Len(raw[i].tables), c \in Names :
           AppendColumn(i, j, c)

Serve ==
    \/ \E scope \in Scopes, search_term \in Terms,
          schema_name \in ContextNames, table_name \in ContextNames :
           Validate(scope, search_term, schema_name, table_name)
    \/ Reply

Next == Export \/ Load \/ Serve

Spec == Init /\ [][Next]_vars

\* the index alone: export and load, no requests
NextIndex == Export \/ Load

SpecIndex == Init /\ [][NextIndex]_vars

\* the typeahead: export, load and suggest requests
Typeahead ==
    \/ \E scope \in Scopes, q \in Queries, schema_name \in FilterNames,
          table_name \in FilterNames, hash_order \in HashOrders :
           Suggest(scope, q, schema_name, table_name, hash_order)
    \/ \E scope \in Scopes, q \in Queries, schema_name \in FilterNames,
          table_name \in FilterNames, hash_order \in HashOrders :
           SuggestWithScores(scope, q, schema_name, table_name, hash_order)
    \/ Reply

NextSuggest == Export \/ Load \/ Typeahead

SpecSuggest == Init /\ [][NextSuggest]_vars

\* one cache loaded and loaded again in place, each load step by step
NextReload == Export \/ BeginLoad \/ BuildSchema \/ EndLoad

SpecReload == Init /\ [][NextReload]_vars

\* the service with its registry: snapshot files come and go, lifespan (or
\* whoever holds the manager) loads all environments, requests are handled
InitRegistry ==
    /\ raw = <<>>
    /\ settings = [fuzzy_threshold |-> fuzzy_threshold, max_suggestions |-> MaxLimit]
    /\ cache = EnvironmentCache
    /\ request = None
    /\ response = None
    /\ loading = [pc |-> "idle", todo |-> <<>>, calls |-> 0]
    /\ files \in [SeqSet(available_environments) -> FileStates]
    /\ heap = <<>>
    /\ _caches = EmptyDict
    /\ _available_environments = <<>>
    /\ loader = LoaderIdle
    /\ reader = ReaderIdle

\* the environments requests name: the configured ones and one that is not
RequestEnvironments == SeqSet(available_environments) \cup {dev}

LoadAll ==
    \/ StartLoadAll
    \/ SkipMissing
    \/ Construct
    \/ LoadOpens
    \/ LoadBuilds
    \/ LoadRaises
    \/ LoadReturns
    \/ Register
    \/ AppendAvailable
    \/ RecordLoaded
    \/ ReturnResults
    \/ LogResults

Handle ==
    \/ \E environment \in RequestEnvironments, scope \in Scopes :
           ReceiveValidate(environment, scope, <<" ", "A">>)
    \/ AnswerValidate
    \/ \E endpoint \in {"suggest", "with-scores"},
          environment \in RequestEnvironments, scope \in Scopes :
           ReceiveSuggest(endpoint, environment, scope, <<" ", "A">>)
    \/ \E hash_order \in HashOrders : AnswerSuggest(hash_order)
    \/ Respond

NextRegistry ==
    \/ \E environment \in SeqSet(available_environments), file \in FileStates :
           WriteFile(environment, file)
    \/ LoadAll
    \/ Handle

SpecRegistry == InitRegistry /\ [][NextRegistry]_vars

-----------------------------------------------------------------------------
(* Properties of Validator.validate *)

Answered == response # None
Req  == request[1]
Resp == response[1]

\* the index's existence check for a scope, with a context
ExistsFor(scope, name, schema, table) ==
    CASE scope = "schema" -> schema_exists(cache, name)
      [] scope = "table"  -> table_exists(cache, name, schema)
      [] scope = "column" -> column_exists(cache, name, schema, table)

\* the request's search term, lowercased and trimmed
ReqTerm == Strip(Lower(Req.search_term))

ReqExact == ExistsFor(Req.scope, ReqTerm, Req.schema_name, Req.table_name)

ReqCandidates ==
    get_candidates_for_scope(cache, Req.scope, Req.schema_name, Req.table_name)

\* candidate c scores at least the configured threshold against the term
ReachesThreshold(c) == ScoreLeq(<<settings.fuzzy_threshold, 1>>, WRatio(ReqTerm, c))

\* C1: whenever the lowercased and trimmed search term passes the scope's
\* existence check with the request's context, the result is 'valid' with a
\* match and the call never went through the fuzzy stage.
C1_ExactMatchPriority ==
    (Answered /\ ReqExact) =>
        /\ Resp.status = "valid"
        /\ Resp.match # None
        /\ Resp.stages = <<"exact">>

\* C1 witness: a 'valid' answer for a term that had to be lowercased and
\* trimmed, in a scope where the fuzzy stage would have had suggestions.
C1_Witness ==
    /\ Answered
    /\ ReqExact
    /\ Resp.status = "valid"
    /\ Req.search_term # ReqTerm
    /\ \E i \in 1..Len(ReqCandidates) : ReachesThreshold(ReqCandidates[i])
    /\ Len(ReqCandidates) >= 2

\* C2: the result is 'not_found' exactly when there is no exact match and
\* either the scoped candidate list is empty or no candidate reaches the
\* threshold; otherwise it is 'valid' or 'suggestions'.
C2_NotFoundIff ==
    Answered =>
        /\ Resp.status \in {"valid", "suggestions", "not_found"}
        /\ Resp.status = "not_found" <=>
             /\ ~ReqExact
             /\ \/ ReqCandidates = <<>>
                \/ \A i \in 1..Len(ReqCandidates) : ~ReachesThreshold(ReqCandidates[i])

\* C2 witness: 'not_found' although the scope has candidates, one of them
\* similar to the term but below the threshold.
C2_Witness ==
    /\ Answered
    /\ Resp.status = "not_found"
    /\ ReqCandidates # <<>>
    /\ \E i \in 1..Len(ReqCandidates) :
           /\ WRatio(ReqTerm, ReqCandidates[i])[1] > 0
           /\ ~ReachesThreshold(ReqCandidates[i])

RespSuggestions == Resp.suggestions[1]

\* C3: a 'suggestions' result is sorted by non-increasing score, holds no
\* score below the threshold and is no longer than the limit.
C3_SuggestionsOrdered ==
    (Answered /\ Resp.status = "suggestions") =>
        /\ \A i, j \in 1..Len(RespSuggestions) :
               i < j => RespSuggestions[i].score >= RespSuggestions[j].score
        /\ \A i \in 1..Len(RespSuggestions) :
               RespSuggestions[i].score >= settings.fuzzy_threshold
        /\ Len(RespSuggestions) <= settings.max_suggestions

\* C3 witness: two suggestions with different scores, the better one from
\* the later candidate.
C3_Witness ==
    /\ Answered
    /\ Resp.status = "suggestions"
    /\ Len(RespSuggestions) = 2
    /\ RespSuggestions[1].score > RespSuggestions[2].score
    /\ Len(ReqCandidates) = 2
    /\ ~ScoreLeq(WRatio(ReqTerm, ReqCandidates[2]), WRatio(ReqTerm, ReqCandidates[1]))

-----------------------------------------------------------------------------
(* Properties of the index built from a snapshot *)

Chars == {"a", "A", "b", "B"}

\* the case permutations of a name
CaseVariants(n) == {v \in [1..Len(n) -> Chars] : Lower(v) = Lower(n)}

\* names to look up: the snapshot's names in every casing, and a name no
\* snapshot holds
ProbeNames == UNION {CaseVariants(n) : n \in Names} \cup {<<"b">>}

\* contexts to look up with: absent, empty, or a name
ProbeContexts == {None, Some(<<>>)} \cup {Some(n) : n \in ProbeNames}

\* lowercased names, the universe the candidate lists draw from
NormalizedNames == {Lower(n) : n \in ProbeNames} \cup {<<>>}

SchemaIdx == 1..Len(raw)
TableIdx(i) == 1..Len(raw[i].tables)
ColumnIdx(i, j) == 1..Len(raw[i].tables[j].columns)

\* the names the snapshot declares at each level
RawSchemaNames == {raw[i].name : i \in SchemaIdx}
RawTableNames == UNION {{raw[i].tables[j].name : j \in TableIdx(i)} : i \in SchemaIdx}
RawColumnNames ==
    UNION {UNION {SeqSet(raw[i].tables[j].columns) : j \in TableIdx(i)} : i \in SchemaIdx}

\* the snapshot declares table t under schema s, names compared lowercased
RawDeclaresTable(s, t) ==
    \E i \in SchemaIdx : \E j \in TableIdx(i) :
        Lower(raw[i].name) = Lower(s) /\ Lower(raw[i].tables[j].name) = Lower(t)

\* the lowercased columns of every snapshot entry that normalizes to (s, t)
RawColumnsOf(s, t) ==
    UNION {UNION {{Lower(c) : c \in SeqSet(raw[i].tables[j].columns)} :
                     j \in {j \in TableIdx(i) : Lower(raw[i].tables[j].name) = Lower(t)}} :
              i \in {i \in SchemaIdx : Lower(raw[i].name) = Lower(s)}}

\* C4: after a build, every schema, every table under it and every column
\* under that table exists, globally and in its own context, in any casing.
C4_LoadedNamesExist ==
    cache.is_loaded =>
        \A i \in SchemaIdx : \A S \in CaseVariants(raw[i].name) :
            /\ schema_exists(cache, S)
            /\ \A j \in TableIdx(i) : \A T \in CaseVariants(raw[i].tables[j].name) :
                   /\ table_exists(cache, T, None)
                   /\ table_exists(cache, T, Some(S))
                   /\ \A k \in ColumnIdx(i, j) :
                          \A C \in CaseVariants(raw[i].tables[j].columns[k]) :
                              /\ column_exists(cache, C, None, None)
                              /\ column_exists(cache, C, Some(S), Some(T))

\* C5: for every name N of the snapshot, get_original_* of the lowercased N
\* returns exactly N.
C5_OriginalExact ==
    cache.is_loaded =>
        /\ \A N \in RawSchemaNames : get_original_schema(cache, Lower(N)) = Some(N)
        /\ \A N \in RawTableNames  : get_original_table(cache, Lower(N)) = Some(N)
        /\ \A N \in RawColumnNames : get_original_column(cache, Lower(N)) = Some(N)

\* the lookup result r recovers name N among the names of its level: it is
\* a name of the level that lowercases like N, and N itself when N is the
\* only such name
Recovers(r, N, level) ==
    /\ r # None
    /\ r[1] \in level
    /\ Lower(r[1]) = Lower(N)
    /\ (\A M \in level : Lower(M) = Lower(N) => M = N) => r[1] = N

\* C5 (amended): for every name N of the snapshot, get_original_* of the
\* lowercased N returns a name of N's level that differs from N at most in
\* letter case, and exactly N when no other name of the level does.
C5_OriginalUpToCollision ==
    cache.is_loaded =>
        /\ \A N \in RawSchemaNames :
               Recovers(get_original_schema(cache, Lower(N)), N, RawSchemaNames)
        /\ \A N \in RawTableNames :
               Recovers(get_original_table(cache, Lower(N)), N, RawTableNames)
        /\ \A N \in RawColumnNames :
               Recovers(get_original_column(cache, Lower(N)), N, RawColumnNames)

\* C5 witness: a built index with names at all three levels, some written
\* with capitals, one level holding two names that differ only in case.
C5_Witness ==
    /\ cache.is_loaded
    /\ RawColumnNames # {}
    /\ n_A \in RawTableNames \cup RawColumnNames
    /\ {n_a, n_A} \subseteq RawSchemaNames
    /\ get_original_table(cache, Lower(n_A)) \in {Some(n) : n \in RawTableNames}

\* C6: table_exists(T, schema=S) is true exactly when the snapshot declares
\* a table that lowercases like T under a schema that lowercases like S.
C6_ScopedTableStrict ==
    cache.is_loaded =>
        \A T \in ProbeNames, S \in ProbeNames :
            table_exists(cache, T, Some(S)) <=> RawDeclaresTable(S, T)

\* both context names are given
BothGiven(schema, table) == schema # None /\ table # None

\* C7: with only schema, only table or neither given, column_exists and the
\* column candidates are those of the call without context.
C7_ColumnScopeNeedsBoth ==
    cache.is_loaded =>
        \A schema \in ProbeContexts, table \in ProbeContexts :
            ~BothGiven(schema, table) =>
                /\ get_candidates_for_scope(cache, "column", schema, table)
                       = get_candidates_for_scope(cache, "column", None, None)
                /\ \A name \in ProbeNames :
                       column_exists(cache, name, schema, table)
                           <=> column_exists(cache, name, None, None)

\* C7 witness: an index in which a table's own columns differ from the
\* global ones, so that the two-name context narrows and a one-name context
\* does not.
C7_Witness ==
    /\ cache.is_loaded
    /\ \E i \in SchemaIdx : \E j \in TableIdx(i) :
          LET S == Some(raw[i].name)
              T == Some(raw[i].tables[j].name)
          IN  /\ get_candidates_for_scope(cache, "column", S, T)
                     # get_candidates_for_scope(cache, "column", None, None)
              /\ get_candidates_for_scope(cache, "column", S, None) # <<>>
              /\ \E name \in ProbeNames :
                     /\ column_exists(cache, name, S, None)
                     /\ column_exists(cache, name, None, T)
                     /\ ~column_exists(cache, name, S, T)

\* C8: for every scope and context the names in the candidate list are the
\* normalized names that pass the scope's existence check in that context.
C8_CandidatesAreExisting ==
    cache.is_loaded =>
        \A scope \in Scopes, schema \in ProbeContexts, table \in ProbeContexts :
            SeqSet(get_candidates_for_scope(cache, scope, schema, table))
                = {n \in NormalizedNames : ExistsFor(scope, n, schema, table)}

\* C8 witness: an index whose table candidates under a schema are some but
\* not all of the global table candidates.
C8_Witness ==
    /\ cache.is_loaded
    /\ \E schema \in ProbeContexts :
          LET scoped == SeqSet(get_candidates_for_scope(cache, "table", schema, None))
              global == SeqSet(get_candidates_for_scope(cache, "table", None, None))
          IN  scoped # {} /\ scoped # global /\ scoped \subseteq global

\* C9: for every (schema, table) of the snapshot the column candidate list
\* holds each of the table's column names exactly once.
C9_ColumnsOncePerTable ==
    cache.is_loaded =>
        \A i \in SchemaIdx : \A j \in TableIdx(i) :
            LET cands == get_candidates_for_scope(cache, "column",
                             Some(raw[i].name), Some(raw[i].tables[j].name))
            IN  \A k \in ColumnIdx(i, j) :
                    Cardinality({p \in 1..Len(cands) :
                                    cands[p] = Lower(raw[i].tables[j].columns[k])}) = 1

\* C10: when two snapshot entries normalize to the same (schema, table), the
\* columns stored for the pair are the union of both entries' columns, and
\* each of them exists in that context.
C10_RedeclaredTableExtends ==
    cache.is_loaded =>
        \A i1, i2 \in SchemaIdx : \A j1 \in TableIdx(i1), j2 \in TableIdx(i2) :
            LET s == Lower(raw[i1].name)
                t == Lower(raw[i1].tables[j1].name)
            IN  (/\ <<i1, j1>> # <<i2, j2>>
                 /\ Lower(raw[i2].name) = s
                 /\ Lower(raw[i2].tables[j2].name) = t) =>
                    /\ <<s, t>> \in DOMAIN cache.columns_by_table
                    /\ cache.columns_by_table[<<s, t>>] = RawColumnsOf(s, t)
                    /\ \A c \in RawColumnsOf(s, t) :
                           column_exists(cache, c, Some(s), Some(t))

-----------------------------------------------------------------------------
(* Properties of the context names and of the empty snapshot *)

\* a context name as the search term is normalized: lowercased and trimmed
NormalizedContext(name) ==
    IF name = None THEN None ELSE Some(Strip(Lower(name[1])))

\* C17: the answer to a validate call is the answer to the same call with
\* its context names lowercased and trimmed, so calls whose context names
\* differ only in letter case or surrounding whitespace answer alike.
C17_ContextNormalized ==
    Answered =>
        Resp = validate(cache,
                        FuzzyMatcher(settings.fuzzy_threshold, settings.max_suggestions),
                        Req.scope, Req.search_term,
                        NormalizedContext(Req.schema_name),
                        NormalizedContext(Req.table_name))

\* an index that is loaded and holds nothing
EmptyIndex(c) ==
    /\ c.is_loaded
    /\ Cardinality(c.schemas_set) = 0
    /\ Cardinality(c.tables_set) = 0
    /\ Cardinality(c.columns_set) = 0
    /\ \A name \in ProbeNames, schema \in ProbeContexts, table \in ProbeContexts :
           /\ ~schema_exists(c, name)
           /\ ~table_exists(c, name, schema)
           /\ ~column_exists(c, name, schema, table)

\* C19: loading a snapshot without schemas gives a loaded index with all
\* counts zero and every existence check false, and every validate call on
\* it answers 'not_found'.
C19_EmptySnapshot ==
    [][ /\ (raw = <<>> /\ cache' # cache) => EmptyIndex(cache')
        /\ (raw = <<>> /\ response' # None) => response'[1].status = "not_found" ]_vars

\* C19 witness: a 'not_found' answer from the loaded index of a snapshot
\* without schemas, to a request that names a context.
C19_Witness ==
    /\ raw = <<>>
    /\ EmptyIndex(cache)
    /\ Answered
    /\ Resp.status = "not_found"
    /\ Req.schema_name # None

-----------------------------------------------------------------------------
(* Properties of the typeahead *)

\* the typeahead request answered, and the names of its answer
SReq == request[1]
SNames ==
    IF SReq.endpoint = "suggest" THEN response[1]
    ELSE [i \in 1..Len(response[1]) |-> response[1][i].name]

\* the <<search_key, qualified_name>> pairs in the request's scope
SCandidates ==
    get_searchable_candidates_for_scope(cache, SReq.scope, SReq.schema_name,
                                        SReq.table_name, SReq.hash_order)

\* the score of the i-th pair's search key against the query
SScore(i) == WRatio(Strip(Lower(SReq.q)), SCandidates[i][1])

\* the pairs whose search key scores at least the threshold
SMatching ==
    {i \in 1..Len(SCandidates) :
        ScoreLeq(<<settings.fuzzy_threshold, 1>>, SScore(i))}

\* the display string the typeahead resolves the i-th pair's search key to
SDisplay(i) ==
    get_original_qualified(cache, SReq.scope,
                           key_to_qualified_of(SCandidates)[SCandidates[i][1]])

\* the i-th pair's own qualified name, in original casing
SOwnDisplay(i) == get_original_qualified(cache, SReq.scope, SCandidates[i][2])

\* the distinct display strings of the matching pairs
SDisplays == {SDisplay(i)[1] : i \in {k \in SMatching : SDisplay(k) # None}}

\* display string d is reached by a pair that scores at least as well as
\* every pair reaching e
SAsGoodAs(d, e) ==
    \E i \in SMatching : /\ SDisplay(i) = Some(d)
                         /\ \A j \in SMatching :
                                SDisplay(j) = Some(e) => ScoreLeq(SScore(j), SScore(i))

\* C15: when at least `limit` distinct display strings belong to pairs that
\* score at or above the threshold, the typeahead returns exactly `limit`
\* of them, none worse than a display string it left out.
C15_DedupBeforeLimit ==
    (Answered /\ Cardinality(SDisplays) >= settings.max_suggestions) =>
        /\ Len(SNames) = settings.max_suggestions
        /\ SeqSet(SNames) \subseteq SDisplays
        /\ \A d \in SeqSet(SNames), e \in SDisplays \ SeqSet(SNames) : SAsGoodAs(d, e)

\* C16: every pair whose search key is matched is resolved to its own
\* qualified name in original casing, so with a limit that cuts nothing
\* every matching pair's own name is returned; and every returned string is
\* the own name of a pair in scope that scores at or above the threshold.
C16_PairsKeepOwnName ==
    Answered =>
        /\ Len(SCandidates) <= settings.max_suggestions =>
               \A i \in SMatching :
                   SOwnDisplay(i) # None /\ SOwnDisplay(i)[1] \in SeqSet(SNames)
        /\ \A r \in SeqSet(SNames) : \E i \in SMatching : SOwnDisplay(i) = Some(r)

-----------------------------------------------------------------------------
(* Properties of loading *)

\* cache c is the complete index of the snapshot it stores
CompleteIndex(c) ==
    [c EXCEPT !.loaded_at = None]
        = [load(EnvironmentCache, [exported_at |-> c.exported_at, schemas |-> c.schemas],
                c.environment)
           EXCEPT !.loaded_at = None]

\* C14: whatever a reader finds in a cache that says is_loaded is the
\* complete index of one snapshot, the previous or the new one, also while
\* load runs again on that cache.
C14_LoadReplacesAtomically ==
    cache.is_loaded => CompleteIndex(cache)

-----------------------------------------------------------------------------
(* Properties of the registry *)

Configured == SeqSet(available_environments)

\* environment e is registered with the complete, loaded index of its file
RegisteredFromFile(e) ==
    /\ e \in DOMAIN _caches
    /\ heap[_caches[e]].is_loaded
    /\ heap[_caches[e]].environment = e
    /\ heap[_caches[e]].schemas = files[e].schemas
    /\ CompleteIndex(heap[_caches[e]])

\* C11: a call of load_all_environments always returns, with a status for
\* every configured environment; every environment with a valid snapshot is
\* loaded and registered whatever the other environments' files are, a
\* missing file is reported as not found and a failing load as an error.
C11_EnvironmentsIndependent ==
    /\ loader.pc # "raised"
    /\ loader.pc = "returned" =>
          /\ DOMAIN loader.results = Configured
          /\ \A e \in Configured :
                /\ files[e].kind = "valid" =>
                       loader.results[e] = "loaded" /\ RegisteredFromFile(e)
                /\ files[e].kind = "missing" => loader.results[e] = "file not found"
                /\ files[e].kind \in {"corrupt", "malformed"} =>
                       loader.results[e] = "error"

\* C11 witness: a call has returned; the first environment's load raised
\* while building, the second environment is loaded from its valid file.
C11_Witness ==
    /\ loader.pc = "returned"
    /\ files[available_environments[1]].kind = "malformed"
    /\ loader.results[available_environments[1]] = "error"
    /\ loader.results[available_environments[2]] = "loaded"
    /\ RegisteredFromFile(available_environments[2])

\* the configured environments that have a cache, in configured order
LoadedInOrder ==
    LET loaded(e) == e \in DOMAIN _caches
    IN  SelectSeq(available_environments, loaded)

\* C12: whenever no call of load_all_environments is running,
\* available_environments lists the loaded environments, each once, in
\* configured order, and is_any_loaded tells whether the list is non-empty.
C12_AvailableExactlyLoaded ==
    loader.pc \in {"idle", "returned"} =>
        /\ _available_environments = LoadedInOrder
        /\ is_any_loaded <=> _available_environments # <<>>

\* a request handler holds the cache it got from the registry
Holding == reader.pc \in {"validator", "suggest"}

\* C13: every cache the registry hands out, and every cache a request
\* handler holds, is loaded and is the complete index of one snapshot, also
\* while load_all_environments is building a new cache.
C13_ReadersSeeCompleteIndex ==
    /\ \A e \in DOMAIN _caches :
           heap[_caches[e]].is_loaded /\ CompleteIndex(heap[_caches[e]])
    /\ Holding =>
           /\ heap[reader.cache].is_loaded
           /\ heap[reader.cache].environment = request[1].environment
           /\ CompleteIndex(heap[reader.cache])

\* C13 witness: a handler holds the old index of an environment while a
\* second load is half-way through building the new, different one.
C13_Witness ==
    /\ Holding
    /\ loader.pc = "build"
    /\ loader.calls = 2
    /\ env = request[1].environment
    /\ _caches[env] = reader.cache
    /\ heap[loader.cache].schemas # heap[reader.cache].schemas
    /\ ~CompleteIndex(heap[loader.cache])

\* C18: a request that arrives when no environment is loaded is rejected
\* with 503; one that arrives when some environment is loaded but not the
\* requested one is rejected with 400; the handler goes on to the lookup
\* only with the loaded cache of the requested environment.
C18_Preconditions ==
    [][ (request = None /\ request' # None) =>
            LET e         == request'[1].environment
                available == e \in DOMAIN _caches /\ heap[_caches[e]].is_loaded
            IN  /\ ~is_any_loaded => response' = Some(HTTPException(503))
                /\ (is_any_loaded /\ ~available) => response' = Some(HTTPException(400))
                /\ reader'.pc \in {"validator", "suggest"} =>
                       available /\ reader'.cache = _caches[e] ]_vars

\* C20: a step of a request handler (validate, suggest, suggest with
\* scores) leaves every cache object, the registry's environment map and
\* its list of available environments as they were.
C20_RequestsWriteNothing ==
    [][ (reader' # reader \/ request' # request \/ response' # response) =>
            UNCHANGED <<heap, _caches, _available_environments>> ]_vars

\* C20 witness: a validate request was answered from a loaded index with
\* something other than 'not_found'.
C20_Witness ==
    /\ reader.pc = "done"
    /\ request[1].endpoint = "validate"
    /\ response[1].status_code = 200
    /\ response[1].body.status # "not_found"
    /\ heap[reader.cache].schemas_list # <<>>

-----------------------------------------------------------------------------
(* The shape of a validation result *)

\* the original-cased names the index stores for a scope
StoredOriginals(scope) ==
    LET map == CASE scope = "schema" -> cache.schemas_map
                 [] scope = "table"  -> cache.tables_map
                 [] scope = "column" -> cache.columns_map
    IN  {map[k] : k \in DOMAIN map}

\* C22: every validate result is 'valid' with a match and no suggestions,
\* or 'suggestions' with no match and a non-empty list of original-cased
\* names the index stores for the scope, or 'not_found' with no match and an
\* empty list; nothing else.
C22_ThreeShapes ==
    Answered =>
        \/ /\ Resp.status = "valid"
           /\ Resp.match # None
           /\ Resp.suggestions = None
        \/ /\ Resp.status = "suggestions"
           /\ Resp.match = None
           /\ Resp.suggestions # None
           /\ RespSuggestions # <<>>
           /\ \A k \in 1..Len(RespSuggestions) :
                  RespSuggestions[k].name \in StoredOriginals(Req.scope)
        \/ /\ Resp.status = "not_found"
           /\ Resp.match = None
           /\ Resp.suggestions = Some(<<>>)

\* C22 witness: a suggestion whose stored original is not its normalized
\* form.
C22_Witness ==
    /\ Answered
    /\ Resp.status = "suggestions"
    /\ \E k \in 1..Len(RespSuggestions) :
           /\ RespSuggestions[k].name # Lower(RespSuggestions[k].name)
           /\ RespSuggestions[k].name \in StoredOriginals(Req.scope)

-----------------------------------------------------------------------------
(* The sample snapshot: schema public, table student, columns id, name,    *)
(* email                                                                    *)

n_public  == <<"p", "u", "b", "l", "i", "c">>
n_student == <<"s", "t", "u", "d", "e", "n", "t">>
n_studnt  == <<"s", "t", "u", "d", "n", "t">>
n_id      == <<"i", "d">>
n_name    == <<"n", "a", "m", "e">>
n_email   == <<"e", "m", "a", "i", "l">>
n_mail    == <<"m", "a", "i", "l">>
n_e       == <<"e">>

\* the snapshot the conversion script's sample CSV produces
SampleSnapshot ==
    <<[name   |-> n_public,
       tables |-> <<[name |-> n_student, columns |-> <<n_id, n_name, n_email>>]>>]>>

\* the search terms and context names of the sample requests
SampleTerms == {n_student, n_studnt, n_mail, n_email, n_e}
SampleContexts == {None, Some(n_public), Some(n_student)}

\* POST /validate against the loaded sample snapshot
ValidateSample(scope, search_term, schema_name, table_name) ==
    /\ request = None
    /\ cache.is_loaded
    /\ request' = Some([scope |-> scope, search_term |-> search_term,
                        schema_name |-> schema_name, table_name |-> table_name])
    /\ response' = Some(validate(cache,
                                 FuzzyMatcher(settings.fuzzy_threshold,
                                              settings.max_suggestions),
                                 scope, search_term, schema_name, table_name))
    /\ UNCHANGED <<raw, settings, cache, loading, registry>>

InitSample ==
    /\ raw = SampleSnapshot
    /\ settings \in [fuzzy_threshold : Thresholds, max_suggestions : 1..MaxLimit]
    /\ cache = EnvironmentCache
    /\ request = None
    /\ response = None
    /\ loading = [pc |-> "idle", todo |-> <<>>, calls |-> 0]
    /\ files = [e \in SeqSet(available_environments) |-> Missing]
    /\ heap = <<>>
    /\ _caches = EmptyDict
    /\ _available_environments = <<>>
    /\ loader = LoaderIdle
    /\ reader = ReaderIdle

ServeSample ==
    \/ \E scope \in Scopes, search_term \in SampleTerms,
          schema_name \in SampleContexts, table_name \in SampleContexts :
           ValidateSample(scope, search_term, schema_name, table_name)
    \/ Reply

NextSample == Load \/ ServeSample

SpecSample == InitSample /\ [][NextSample]_vars

\* the three requests of the scenario
TableStudent ==
    [scope |-> "table", search_term |-> n_student,
     schema_name |-> None, table_name |-> None]
TableStudnt ==
    [scope |-> "table", search_term |-> n_studnt,
     schema_name |-> None, table_name |-> None]
ColumnMail ==
    [scope |-> "column", search_term |-> n_mail,
     schema_name |-> Some(n_public), table_name |-> Some(n_student)]

\* the first two requests of the scenario: 'student' is valid, 'studnt' at
\* threshold 50 suggests 'student' first with a score above 50
SampleTables ==
    /\ (Answered /\ Req = TableStudent) =>
           Resp.status = "valid" /\ Resp.match = Some(n_student)
    /\ (Answered /\ Req = TableStudnt /\ settings.fuzzy_threshold = 50) =>
           /\ Resp.status = "suggestions"
           /\ RespSuggestions[1].name = n_student
           /\ RespSuggestions[1].score > 50

\* C23 as stated: on the sample snapshot, table 'student' is valid with
\* match 'student'; table 'studnt' at threshold 50 gives suggestions with
\* 'student' first and a score above 50; column 'mail' under public.student
\* at threshold 80 is not_found.
C23_Scenario ==
    /\ SampleTables
    /\ (Answered /\ Req = ColumnMail /\ settings.fuzzy_threshold = 80) =>
           Resp.status = "not_found"

\* C23, amended: the first two results as stated; column 'mail' under
\* public.student at threshold 80 gives the single suggestion 'email' with
\* score 88, the similarity of 'mail' and 'email' being 800/9.
C23_ScenarioMailSuggestsEmail ==
    /\ SampleTables
    /\ (Answered /\ Req = ColumnMail /\ settings.fuzzy_threshold = 80) =>
           /\ Resp.status = "suggestions"
           /\ Resp.match = None
           /\ RespSuggestions = <<[name |-> n_email, score |-> 88]>>
           /\ WRatio(n_mail, n_email) = <<800, 9>>

\* C23 witness: the column request for 'mail' answered at threshold 80.
C23_Witness ==
    /\ Answered
    /\ Req = ColumnMail
    /\ settings.fuzzy_threshold = 80
    /\ raw = SampleSnapshot
    /\ cache.is_loaded
    /\ Resp.status = "suggestions"

-----------------------------------------------------------------------------
(* The matcher's ordering and its single best match *)

\* the matcher the validator is constructed with
Matcher == FuzzyMatcher(settings.fuzzy_threshold, settings.max_suggestions)

\* the threshold arguments a caller may pass
ThresholdArgs == {None} \cup {Some(t) : t \in Thresholds}

\* every choice of the request's scope that reaches the threshold, as
\* process.extract ranks them
ReqRanked ==
    extract(ReqTerm, ReqCandidates, Len(ReqCandidates), settings.fuzzy_threshold)

\* C21: find_matches returns the candidates by descending score, equal
\* scores in candidate order, and find_best_match with a threshold is the
\* first element of find_matches with that threshold and limit 1, or none
\* when that list is empty.
C21_BestIsFirstMatch ==
    Answered =>
        LET ranked == ReqRanked
            all    == find_matches(Matcher, Req.search_term, ReqCandidates,
                                   None, Some(Len(ReqCandidates)))
        IN  /\ \A k \in 1..(Len(ranked) - 1) :
                   \/ ~ScoreLeq(ranked[k][2], ranked[k + 1][2])
                   \/ /\ ranked[k][2] = ranked[k + 1][2]
                      /\ ranked[k][3] < ranked[k + 1][3]
            /\ Len(all) = Len(ranked)
            /\ \A k \in 1..Len(all) :
                   all[k] = [name  |-> ranked[k][1],
                             score |-> IntScore(ranked[k][2])]
            /\ \A threshold \in ThresholdArgs :
                   LET first == find_matches(Matcher, Req.search_term,
                                             ReqCandidates, threshold, Some(1))
                       best  == find_best_match(Matcher, Req.search_term,
                                                ReqCandidates, threshold)
                   IN  best = IF first = <<>> THEN None ELSE Some(first[1])

\* C21 witness: two different candidates tie above the threshold, and the
\* best match is the one that comes first in the candidate list.
C21_Witness ==
    /\ Answered
    /\ Len(ReqRanked) = 2
    /\ ReqRanked[1][2] = ReqRanked[2][2]
    /\ ReqRanked[1][1] # ReqRanked[2][1]
    /\ ReqRanked[1][3] < ReqRanked[2][3]
    /\ find_best_match(Matcher, Req.search_term, ReqCandidates, None)
           = Some([name |-> ReqRanked[1][1], score |-> IntScore(ReqRanked[1][2])])

-----------------------------------------------------------------------------
(* Properties of the maps and lists of the built index *)

\* the positions of the snapshot's tables and columns, and their iteration
\* order
TablePos == {p \in (1..MaxEntries) \X (1..MaxEntries) :
                p[1] \in SchemaIdx /\ p[2] \in TableIdx(p[1])}
ColumnPos == {p \in (1..MaxEntries) \X (1..MaxEntries) \X (1..MaxEntries) :
                 /\ p[1] \in SchemaIdx
                 /\ p[2] \in TableIdx(p[1])
                 /\ p[3] \in ColumnIdx(p[1], p[2])}
Before(p, q) ==
    \E n \in 1..Len(p) : p[n] < q[n] /\ \A m \in 1..(n - 1) : p[m] = q[m]

SchemaAt(p) == raw[p[1]].name
TableAt(p)  == raw[p[1]].tables[p[2]].name
ColumnAt(p) == raw[p[1]].tables[p[2]].columns[p[3]]
QualifiedTableAt(p)  == Dot(SchemaAt(p), TableAt(p))
QualifiedColumnAt(p) == Dot(QualifiedTableAt(p), ColumnAt(p))

\* C24: after a build, each of schemas_map, tables_map, columns_map,
\* qualified_tables_map and qualified_columns_map holds, for each key, the
\* original of the first snapshot entry, in iteration order, that normalizes
\* to the key.
C24_FirstWriteWins ==
    cache.is_loaded =>
        /\ \A i \in SchemaIdx :
               (\A h \in 1..(i - 1) : Lower(raw[h].name) # Lower(raw[i].name)) =>
                   Get(cache.schemas_map, Lower(raw[i].name), None) = raw[i].name
        /\ \A p \in TablePos :
               (\A q \in TablePos : Before(q, p) => Lower(TableAt(q)) # Lower(TableAt(p))) =>
                   Get(cache.tables_map, Lower(TableAt(p)), None) = TableAt(p)
        /\ \A p \in ColumnPos :
               (\A q \in ColumnPos : Before(q, p) => Lower(ColumnAt(q)) # Lower(ColumnAt(p))) =>
                   Get(cache.columns_map, Lower(ColumnAt(p)), None) = ColumnAt(p)
        /\ \A p \in TablePos :
               (\A q \in TablePos : Before(q, p) =>
                       Lower(QualifiedTableAt(q)) # Lower(QualifiedTableAt(p))) =>
                   Get(cache.qualified_tables_map, Lower(QualifiedTableAt(p)), None)
                       = QualifiedTableAt(p)
        /\ \A p \in ColumnPos :
               (\A q \in ColumnPos : Before(q, p) =>
                       Lower(QualifiedColumnAt(q)) # Lower(QualifiedColumnAt(p))) =>
                   Get(cache.qualified_columns_map, Lower(QualifiedColumnAt(p)), None)
                       = QualifiedColumnAt(p)

\* C25: after a build the lists and the sets hold the same names at every
\* level: globally, per schema key and per table key, and each pair of
\* scoped dictionaries has the same keys.
C25_ListsMatchSets ==
    cache.is_loaded =>
        /\ SeqSet(cache.schemas_list) = cache.schemas_set
        /\ SeqSet(cache.tables_list)  = cache.tables_set
        /\ SeqSet(cache.columns_list) = cache.columns_set
        /\ DOMAIN cache.tables_list_by_schema = DOMAIN cache.tables_by_schema
        /\ \A s \in DOMAIN cache.tables_by_schema :
               SeqSet(cache.tables_list_by_schema[s]) = cache.tables_by_schema[s]
        /\ DOMAIN cache.columns_list_by_table = DOMAIN cache.columns_by_table
        /\ \A k \in DOMAIN cache.columns_by_table :
               SeqSet(cache.columns_list_by_table[k]) = cache.columns_by_table[k]

\* C25 witness: a schema key declared twice, the first declaration with a
\* table, so that the key's tables were emptied on the second.
C25_Witness ==
    /\ cache.is_loaded
    /\ \E i, h \in SchemaIdx :
           /\ h < i
           /\ Lower(raw[h].name) = Lower(raw[i].name)
           /\ raw[h].tables # <<>>
           /\ raw[i].tables = <<>>
           /\ cache.tables_by_schema[Lower(raw[i].name)] = {}
           /\ cache.tables_set # {}

\* a list without a repeated element
NoDuplicates(list) ==
    \A k, l \in 1..Len(list) : k # l => list[k] # list[l]

\* C26: after a build from any snapshot, schemas_list, tables_list and
\* columns_list hold no name twice, so each is as long as its set is large.
C26_GlobalListsDistinct ==
    cache.is_loaded =>
        /\ NoDuplicates(cache.schemas_list)
        /\ NoDuplicates(cache.tables_list)
        /\ NoDuplicates(cache.columns_list)
        /\ Len(cache.schemas_list) = Cardinality(cache.schemas_set)
        /\ Len(cache.tables_list)  = Cardinality(cache.tables_set)
        /\ Len(cache.columns_list) = Cardinality(cache.columns_set)

-----------------------------------------------------------------------------
(* The statuses of the latest load against the registry *)

\* C27: when a call of load_all_environments has returned, after any files
\* changes between the calls, an environment's status is 'loaded' exactly
\* when get_cache returns a cache for it, and that cache is the index of the
\* snapshot this call read.
C27_StatusAgreesWithRegistry ==
    loader.pc = "returned" =>
        \A e \in Configured :
            /\ loader.results[e] = "loaded" <=> get_cache(e) # None
            /\ loader.results[e] = "loaded" => RegisteredFromFile(e)

-----------------------------------------------------------------------------
(* Repeated names among the suggestions *)

\* C28: the suggestions of a validate result never hold the same name
\* twice, whatever the snapshot, the scope and the context.
C28_SuggestionsDistinct ==
    (Answered /\ Resp.status = "suggestions") =>
        \A k, l \in 1..Len(RespSuggestions) :
            k # l => RespSuggestions[k].name # RespSuggestions[l].name

-----------------------------------------------------------------------------
(* A load that raises *)

\* the environment load_all_environments attempted last
Attempted == available_environments[loader.i - 1]

\* the last attempt was a cache.load(...) that raised
LoadHasRaised ==
    /\ loader.pc = "attempt"
    /\ loader.i > 1
    /\ Attempted \in DOMAIN loader.results
    /\ loader.results[Attempted] = "error"

\* C29: a load that raises leaves the cache as it was before the call: the
\* cache load_all_environments constructed and whose load raised still has
\* the values it was constructed with, in every structure and in
\* exported_at, environment, loaded_at and is_loaded.
C29_FailedLoadChangesNothing ==
    LoadHasRaised => heap[loader.cache] = EnvironmentCache

-----------------------------------------------------------------------------
(* The standalone library: MetadataCache, FuzzyMatcher and Validator of the *)
(* package `standalone`, which the command line tool uses on a snapshot     *)
(* file without the service                                                  *)

\* MetadataCache(): the dataclass defaults
MetadataCache ==
    [ schemas                |-> <<>>,
      schemas_set            |-> {},
      tables_set             |-> {},
      columns_set            |-> {},
      schemas_list           |-> <<>>,
      tables_list            |-> <<>>,
      columns_list           |-> <<>>,
      schemas_map            |-> EmptyDict,
      tables_map             |-> EmptyDict,
      columns_map            |-> EmptyDict,
      tables_by_schema       |-> EmptyDict,
      tables_list_by_schema  |-> EmptyDict,
      columns_by_table       |-> EmptyDict,
      columns_list_by_table  |-> EmptyDict,
      qualified_tables_list  |-> <<>>,
      qualified_tables_map   |-> EmptyDict,
      qualified_columns_list |-> <<>>,
      qualified_columns_map  |-> EmptyDict,
      exported_at            |-> None,
      loaded_at              |-> None,
      is_loaded              |-> FALSE,
      environment            |-> <<>> ]

\* MetadataCache._reset_structures
standalone_reset_structures(self) ==
    [ self EXCEPT
      !.schemas = <<>>,
      !.schemas_set = {}, !.tables_set = {}, !.columns_set = {},
      !.schemas_list = <<>>, !.tables_list = <<>>, !.columns_list = <<>>,
      !.schemas_map = EmptyDict, !.tables_map = EmptyDict,
      !.columns_map = EmptyDict,
      !.tables_by_schema = EmptyDict, !.tables_list_by_schema = EmptyDict,
      !.columns_by_table = EmptyDict, !.columns_list_by_table = EmptyDict,
      !.qualified_tables_list = <<>>, !.qualified_tables_map = EmptyDict,
      !.qualified_columns_list = <<>>, !.qualified_columns_map = EmptyDict ]

RECURSIVE standalone_columns(_, _, _, _)
\* MetadataCache._build_from_raw_data: for column_name in columns
standalone_columns(self, schema_name, table_name, columns) ==
    IF columns = <<>> THEN self
    ELSE LET column_name  == columns[1]
             column_lower == Lower(column_name)
             table_key    == <<Lower(schema_name), Lower(table_name)>>
             unseen       == column_lower \notin DOMAIN self.columns_map
             qualified_column ==
                 schema_name \o <<".">> \o table_name \o <<".">> \o column_name
             qualified_column_lower == Lower(qualified_column)
             next ==
                 [ self EXCEPT
                   !.columns_set  = @ \cup {column_lower},
                   !.columns_list = IF unseen THEN Append(@, column_lower) ELSE @,
                   !.columns_map  = IF unseen THEN Put(@, column_lower, column_name)
                                    ELSE @,
                   !.columns_by_table =
                       Put(@, table_key, @[table_key] \cup {column_lower}),
                   !.columns_list_by_table =
                       Put(@, table_key, Append(@[table_key], column_lower)),
                   !.qualified_columns_list = Append(@, qualified_column_lower),
                   !.qualified_columns_map  =
                       Put(@, qualified_column_lower, qualified_column) ]
         IN  standalone_columns(next, schema_name, table_name, Tail(columns))

RECURSIVE standalone_tables(_, _, _)
\* MetadataCache._build_from_raw_data: for table_name, columns in
\* tables_data.items()
standalone_tables(self, schema_name, tables_data) ==
    IF tables_data = <<>> THEN self
    ELSE LET table_name   == tables_data[1].name
             schema_lower == Lower(schema_name)
             table_lower  == Lower(table_name)
             unseen       == table_lower \notin DOMAIN self.tables_map
             table_key    == <<schema_lower, table_lower>>
             qualified_table       == schema_name \o <<".">> \o table_name
             qualified_table_lower == Lower(qualified_table)
             next ==
                 [ self EXCEPT
                   !.tables_set  = @ \cup {table_lower},
                   !.tables_list = IF unseen THEN Append(@, table_lower) ELSE @,
                   !.tables_map  = IF unseen THEN Put(@, table_lower, table_name)
                                   ELSE @,
                   !.tables_by_schema =
                       Put(@, schema_lower, @[schema_lower] \cup {table_lower}),
                   !.tables_list_by_schema =
                       Put(@, schema_lower, Append(@[schema_lower], table_lower)),
                   !.columns_by_table      = Put(@, table_key, {}),
                   !.columns_list_by_table = Put(@, table_key, <<>>),
                   !.qualified_tables_list = Append(@, qualified_table_lower),
                   !.qualified_tables_map  =
                       Put(@, qualified_table_lower, qualified_table) ]
         IN  standalone_tables(
                 standalone_columns(next, schema_name, table_name,
                                    tables_data[1].columns),
                 schema_name, Tail(tables_data))

RECURSIVE standalone_schemas(_, _)
\* MetadataCache._build_from_raw_data: for schema_name, schema_data in
\* raw_schemas.items()
standalone_schemas(self, raw_schemas) ==
    IF raw_schemas = <<>> THEN self
    ELSE LET schema_name  == raw_schemas[1].name
             schema_lower == Lower(schema_name)
             next ==
                 [ self EXCEPT
                   !.schemas_set  = @ \cup {schema_lower},
                   !.schemas_list = Append(@, schema_lower),
                   !.schemas_map  = Put(@, schema_lower, schema_name),
                   !.tables_by_schema      = Put(@, schema_lower, {}),
                   !.tables_list_by_schema = Put(@, schema_lower, <<>>) ]
         IN  standalone_schemas(
                 standalone_tables(next, schema_name, raw_schemas[1].tables),
                 Tail(raw_schemas))

\* MetadataCache._build_from_raw_data
standalone_build_from_raw_data(self, data) ==
    LET with_export == [self EXCEPT !.exported_at = data.exported_at]
        emptied     == standalone_reset_structures(with_export)
    IN  standalone_schemas([emptied EXCEPT !.schemas = data.schemas], data.schemas)

\* MetadataCache.load_from_pickle, the file being present and readable;
\* the snapshot files hold no "environment" key
load_from_pickle(self, data) ==
    [ standalone_build_from_raw_data(self, data) EXCEPT
      !.environment = IF "environment" \in DOMAIN data THEN data.environment
                      ELSE <<>>,
      !.loaded_at   = Some(<<"now">>),
      !.is_loaded   = TRUE ]

\* MetadataCache.schema_exists / table_exists / column_exists
standalone_schema_exists(self, name) == Lower(name) \in self.schemas_set

standalone_table_exists(self, name, schema) ==
    IF Truthy(schema)
    THEN Lower(name) \in Get(self.tables_by_schema, Lower(schema[1]), {})
    ELSE Lower(name) \in self.tables_set

standalone_column_exists(self, name, schema, table) ==
    IF Truthy(schema) /\ Truthy(table)
    THEN Lower(name) \in
             Get(self.columns_by_table, <<Lower(schema[1]), Lower(table[1])>>, {})
    ELSE Lower(name) \in self.columns_set

\* MetadataCache.get_original_schema / _table / _column: the key is
\* lowercased once more
standalone_get_original_schema(self, normalized) ==
    Lookup(self.schemas_map, Lower(normalized))

standalone_get_original_table(self, normalized) ==
    Lookup(self.tables_map, Lower(normalized))

standalone_get_original_column(self, normalized) ==
    Lookup(self.columns_map, Lower(normalized))

\* MetadataCache.get_schema_candidates
get_schema_candidates(self) == self.schemas_list

\* mutant: the schema argument does not narrow the candidates
get_table_candidates_global(self, schema) == self.tables_list

\* MetadataCache.get_table_candidates
get_table_candidates(self, schema) ==
    IF Truthy(schema)
    THEN Get(self.tables_list_by_schema, Lower(schema[1]), <<>>)
    ELSE self.tables_list

\* MetadataCache.get_column_candidates
get_column_candidates(self, schema, table) ==
    IF Truthy(schema) /\ Truthy(table)
    THEN Get(self.columns_list_by_table,
             <<Lower(schema[1]), Lower(table[1])>>, <<>>)
    ELSE self.columns_list

\* standalone FuzzyMatcher.find_matches(query, candidates), by the matcher's
\* contract: the query lowercased and trimmed, the candidates scoring below
\* the threshold excluded, the rest by descending score with ties in
\* candidate order, cut to the limit after sorting; integer scores
standalone_find_matches(self, query, candidates) ==
    LET ranked == Scored(Strip(Lower(query)), candidates, Len(candidates),
                         self.threshold)
        kept   == SubSeq(ranked, 1, Min2(self.max_results, Len(ranked)))
    IN  [k \in 1..Len(kept) |->
            [name |-> kept[k][1], score |-> IntScore(kept[k][2])]]

\* standalone Validator._check_exact_match
standalone_check_exact_match(c, scope, normalized_term, schema, table) ==
    CASE scope = "schema" ->
            IF standalone_schema_exists(c, normalized_term)
            THEN standalone_get_original_schema(c, normalized_term) ELSE None
      [] scope = "table" ->
            IF standalone_table_exists(c, normalized_term, schema)
            THEN standalone_get_original_table(c, normalized_term) ELSE None
      [] scope = "column" ->
            IF standalone_column_exists(c, normalized_term, schema, table)
            THEN standalone_get_original_column(c, normalized_term) ELSE None
      [] OTHER -> None

\* standalone Validator._find_suggestions: a non-empty list, or None
find_suggestions(c, fuzzy_matcher, scope, search_term, schema, table) ==
    IF scope \notin {"schema", "table", "column"} THEN None
    ELSE LET candidates ==
                 CASE scope = "schema" -> get_schema_candidates(c)
                   [] scope = "table"  -> get_table_candidates(c, schema)
                   [] scope = "column" -> get_column_candidates(c, schema, table)
             matches == standalone_find_matches(fuzzy_matcher, search_term, candidates)
             original(m) ==
                 IF scope = "schema" THEN standalone_get_original_schema(c, m.name)
                 ELSE IF scope = "table" THEN standalone_get_original_table(c, m.name)
                 ELSE standalone_get_original_column(c, m.name)
             Kept(m) == Truthy(original(m))
             kept    == SelectSeq(matches, Kept)
             suggestions == [k \in 1..Len(kept) |->
                                [name |-> original(kept[k])[1], score |-> kept[k].score]]
         IN  IF candidates = <<>> THEN None
             ELSE IF matches = <<>> THEN None
             ELSE IF suggestions # <<>> THEN Some(suggestions) ELSE None

\* standalone Validator.validate(scope, search_term, schema=None, table=None)
standalone_validate(c, fuzzy_matcher, scope, search_term, schema, table) ==
    LET normalized_term == Strip(Lower(search_term))
        exact_match == standalone_check_exact_match(c, scope, normalized_term,
                                                    schema, table)
        suggestions == find_suggestions(c, fuzzy_matcher, scope, search_term,
                                        schema, table)
    IN  IF Truthy(exact_match)
        THEN [status |-> "valid", match |-> exact_match, suggestions |-> None]
        ELSE IF suggestions # None
        THEN [status |-> "suggestions", match |-> None, suggestions |-> suggestions]
        ELSE [status |-> "not_found", match |-> None, suggestions |-> Some(<<>>)]

\* the command line tool loads the snapshot file the service has loaded:
\* cache = MetadataCache(); cache.load_from_pickle(path)
LoadFromPickle ==
    /\ cache.is_loaded
    /\ heap = <<>>
    /\ heap' = <<load_from_pickle(MetadataCache, Data(raw))>>
    /\ UNCHANGED <<raw, settings, cache, request, response, loading,
                   files, _caches, _available_environments, loader, reader>>

\* the library validates a name: Validator(cache, fuzzy_threshold,
\* max_suggestions).validate(scope, search_term, schema, table)
ValidateStandalone(scope, search_term, schema, table) ==
    /\ request = None
    /\ heap # <<>>
    /\ Entries(raw) <= MaxServed
    /\ request' = Some([library |-> "standalone",
                        scope |-> scope, search_term |-> search_term,
                        schema_name |-> schema, table_name |-> table])
    /\ response' = Some(standalone_validate(
                            heap[1],
                            FuzzyMatcher(settings.fuzzy_threshold,
                                         settings.max_suggestions),
                            scope, search_term, schema, table))
    /\ UNCHANGED <<raw, settings, cache, loading, registry>>

ServeStandalone ==
    \/ \E scope \in Scopes, search_term \in Terms,
          schema \in ContextNames, table \in ContextNames :
           ValidateStandalone(scope, search_term, schema, table)
    \/ Reply

NextStandalone == Export \/ Load \/ LoadFromPickle \/ ServeStandalone

SpecStandalone == Init /\ [][NextStandalone]_vars

\* the lookup structures of an index
Structures ==
    {"schemas", "schemas_set", "tables_set", "columns_set",
     "schemas_list", "tables_list", "columns_list",
     "schemas_map", "tables_map", "columns_map",
     "tables_by_schema", "tables_list_by_schema",
     "columns_by_table", "columns_list_by_table",
     "qualified_tables_list", "qualified_tables_map",
     "qualified_columns_list", "qualified_columns_map"}

\* C30: for the same snapshot, threshold and limit, the standalone
\* MetadataCache holds the same index structures as the service's
\* EnvironmentCache, and the standalone validate returns the status, match
\* and suggestions the service's validate returns for the same scope, term
\* and context.
C30_StandaloneEquivalent ==
    /\ (cache.is_loaded /\ heap # <<>>) =>
           \A f \in Structures : heap[1][f] = cache[f]
    /\ (Answered /\ "library" \in DOMAIN Req) =>
           LET served == validate(cache, Matcher, Req.scope, Req.search_term,
                                  Req.schema_name, Req.table_name)
           IN  /\ Resp.status = served.status
               /\ Resp.match = served.match
               /\ Resp.suggestions = served.suggestions

\* C30 witness: the library suggests tables of a schema given as context,
\* a schema that does not hold every table of the snapshot.
C30_Witness ==
    /\ Answered
    /\ "library" \in DOMAIN Req
    /\ Req.scope = "table"
    /\ Truthy(Req.schema_name)
    /\ Resp.status = "suggestions"
    /\ heap[1].tables_list # get_table_candidates(heap[1], Req.schema_name)
    /\ heap[1].qualified_tables_map = cache.qualified_tables_map

=============================================================================
